---- MODULE Spec2Model ----
(***************************************************************************)
(* Match reconciliation of the Staging tournament portal: Tracker.gg       *)
(* telemetry is parsed against the players table (parse_tracker_json),     *)
(* previewed and saved by the admin view (show_admin_matches,              *)
(* save_match_result), or auto-filled and saved by the dashboard's match   *)
(* editor.  Strings are sequences of one-character strings, so that        *)
(* lower(), strip(), split('#'), replace('@','') and substring tests are   *)
(* computed and not assumed.                                               *)
(***************************************************************************)
EXTENDS Integers, Sequences, FiniteSets, TLC

(* ---------------------------- bounds ----------------------------------- *)
\* largest number of rows of the players table
MaxPlayers == 3
\* largest number of player-summary segments of one telemetry document
MaxSegs == 3
\* the same two limits where the team-summary segments vary as well
MaxWidePlayers == 3
MaxWideSegs == 2
\* largest number of players rows edited since the parse read the table
MaxEdits == 1

(* ---------------------------- null values ------------------------------ *)
\* Python None / SQL NULL for a string column
None == <<"\\N">>
\* Python None / SQL NULL for an integer id (ids are AUTOINCREMENT, >= 1)
NoId == 0

Truthy(s) == s # None /\ s # <<>>

(* ---------------------------- strings ---------------------------------- *)
\* str.lower() on one character
LowerChar(c) ==
  CASE c = "A" -> "a" [] c = "B" -> "b" [] c = "C" -> "c" [] c = "D" -> "d"
    [] c = "E" -> "e" [] c = "Z" -> "z" [] OTHER -> c

\* str.lower()
Lower(s) == [i \in 1..Len(s) |-> LowerChar(s[i])]

RECURSIVE LStrip(_)
LStrip(s) == IF s # <<>> /\ Head(s) = " " THEN LStrip(Tail(s)) ELSE s

RECURSIVE RStrip(_)
RStrip(s) ==
  IF s # <<>> /\ s[Len(s)] = " " THEN RStrip(SubSeq(s, 1, Len(s) - 1)) ELSE s

\* str.strip()
Strip(s) == RStrip(LStrip(s))

\* s.split('#')[0] : the part before the first '#', the whole string if none
RECURSIVE SplitHash(_)
SplitHash(s) ==
  IF s = <<>> \/ Head(s) = "#" THEN <<>> ELSE <<Head(s)>> \o SplitHash(Tail(s))

\* s.replace('@', '')
RECURSIVE RemoveAt(_)
RemoveAt(s) ==
  IF s = <<>> THEN <<>>
  ELSE IF Head(s) = "@" THEN RemoveAt(Tail(s))
       ELSE <<Head(s)>> \o RemoveAt(Tail(s))

\* s.startswith(p)
StartsWith(s, p) == Len(p) <= Len(s) /\ SubSeq(s, 1, Len(p)) = p

\* Python's  a in b  on strings (the empty string is in every string)
Contains(b, a) ==
  \E i \in 0..(Len(b) - Len(a)) : SubSeq(b, i + 1, i + Len(a)) = a

\* code point order of the characters that occur in names
CharCode(c) ==
  CASE c = " " -> 32 [] c = "#" -> 35 [] c = "(" -> 40 [] c = ")" -> 41
    [] c = "1" -> 49 [] c = "2" -> 50 [] c = "5" -> 53 [] c = "9" -> 57
    [] c = "@" -> 64
    [] c = "A" -> 65 [] c = "B" -> 66 [] c = "C" -> 67 [] c = "D" -> 68
    [] c = "E" -> 69 [] c = "Z" -> 90
    [] c = "a" -> 97 [] c = "b" -> 98 [] c = "c" -> 99 [] c = "d" -> 100
    [] c = "e" -> 101 [] c = "f" -> 102 [] c = "z" -> 122
    [] OTHER -> 127

\* binary (code point) string order, as ORDER BY name and sort_values('name')
RECURSIVE StrLess(_, _)
StrLess(a, b) ==
  IF b = <<>> THEN FALSE
  ELSE IF a = <<>> THEN TRUE
  ELSE IF Head(a) = Head(b) THEN StrLess(Tail(a), Tail(b))
  ELSE CharCode(Head(a)) < CharCode(Head(b))

(* ---------------------------- sequences -------------------------------- *)
Range(s) == {s[i] : i \in 1..Len(s)}

\* all orderings of a finite set
Perms(S) ==
  {f \in [1..Cardinality(S) -> S] :
     \A i, j \in 1..Cardinality(S) : f[i] = f[j] => i = j}

SetMax(S) == CHOOSE x \in S : \A y \in S : y <= x

\* ascending listing of a set of ids
SortAsc(S) ==
  CHOOSE f \in Perms(S) : \A i, j \in 1..Cardinality(S) : i < j => f[i] < f[j]

\* slots of the hash table CPython gives a set of n elements
SetTableSize(n) == IF n <= 4 THEN 8 ELSE 32

\* set_add_entry: an int hashes to itself; the slot is hash & mask, and on a
\* collision the next slot is (i*5 + 1 + perturb) & mask with perturb >>= 5
\* (a table of 8 slots has no linear probes); NoId marks a free slot
RECURSIVE set_add_entry(_, _, _, _)
set_add_entry(table, key, i, perturb) ==
  IF table[i] = NoId THEN [table EXCEPT ![i] = key]
  ELSE IF table[i] = key THEN table
  ELSE set_add_entry(table, key,
                     (i * 5 + 1 + (perturb \div 32)) % Cardinality(DOMAIN table),
                     perturb \div 32)

\* set(ids): the ids are added in the order of the list
RECURSIVE PySet(_)
PySet(ids) ==
  IF ids = <<>> THEN [i \in 0..(SetTableSize(0) - 1) |-> NoId]
  ELSE LET table == PySet(SubSeq(ids, 1, Len(ids) - 1))
           key == ids[Len(ids)]
       IN set_add_entry(table, key, key % Cardinality(DOMAIN table), key)

\* list(table): the keys in slot order
PyList(table) ==
  SelectSeq([i \in 1..Cardinality(DOMAIN table) |-> table[i - 1]],
            LAMBDA k : k # NoId)

\* table - other: a copy with the keys of other discarded when the set is more
\* than four times the size of other, else a new set filled in slot order
set_difference(table, other) ==
  IF Len(PyList(table)) \div 4 > Cardinality(other)
  THEN [i \in DOMAIN table |-> IF table[i] \in other THEN NoId ELSE table[i]]
  ELSE PySet(SelectSeq(PyList(table), LAMBDA k : k \notin other))

\* list(set(ids) - other) for a roster of at most four ids
PySetList(ids, other) == PyList(set_difference(PySet(ids), other))

(* ---------------------------- inputs ----------------------------------- *)
\* rows the players table is drawn from: id, name, riot_id, default_team_id
\* (teams 1 and 2 play the match; NoId is a free agent)
PlayerPool ==
  { [id |-> 9, name |-> <<"b">>, riot_id |-> <<"b", "#", "1">>, default_team_id |-> 1],
    [id |-> 2, name |-> <<"a">>, riot_id |-> <<"a", "#", "1">>, default_team_id |-> 1],
    [id |-> 3, name |-> <<"c">>, riot_id |-> None,              default_team_id |-> 2],
    [id |-> 4, name |-> <<"D">>, riot_id |-> <<"c", "#", "1">>, default_team_id |-> 2],
    [id |-> 5, name |-> <<"e">>, riot_id |-> <<"E", "#", "5">>, default_team_id |-> NoId],
    [id |-> 6, name |-> <<"f">>, riot_id |-> None,              default_team_id |-> 1] }

\* platformInfo of the player-summary segments the telemetry is drawn from
IdentPool ==
  << [platformUserIdentifier |-> <<"b", "#", "1">>, platformUserHandle |-> None],
     [platformUserIdentifier |-> <<"A", "#", "1">>, platformUserHandle |-> None],
     [platformUserIdentifier |-> <<"a", "#", "2">>, platformUserHandle |-> None],
     [platformUserIdentifier |-> <<"C", "#", "1">>, platformUserHandle |-> None],
     [platformUserIdentifier |-> None,              platformUserHandle |-> <<" ", "e">>],
     [platformUserIdentifier |-> <<"z", "#", "9">>, platformUserHandle |-> None] >>

\* teamId values of the telemetry (NoSide: the field is absent)
Sides == {"Red", "Blue"}
NoSide == "none"

\* the players tables of the model: at most MaxPlayers rows of the pool
PlayerTables == {T \in SUBSET PlayerPool : Cardinality(T) <= MaxPlayers}

\* the player-summary segment built from pool entry i on side sd
PlayerSeg(i, sd) ==
  [teamId |-> sd,
   platformUserIdentifier |-> IdentPool[i].platformUserIdentifier,
   platformUserHandle |-> IdentPool[i].platformUserHandle,
   agentName |-> <<"J", "e", "t", "t">>,
   scorePerRound |-> 200 + i]

\* ascending and descending listings of a set of pool indices
Listings(I) ==
  {f \in Perms(I) : (\A i, j \in 1..Cardinality(I) : i < j => f[i] < f[j])
                 \/ (\A i, j \in 1..Cardinality(I) : i < j => f[i] > f[j])}

\* the player-summary segment lists of the model
PlayerSegLists ==
  UNION { UNION { { [k \in 1..Len(ord) |-> PlayerSeg(ord[k], sd[ord[k]])] :
                      sd \in [I -> Sides] } : ord \in Listings(I) } :
          I \in {J \in SUBSET (1..Len(IdentPool)) : Cardinality(J) <= MaxSegs} }

\* the team-summary segment lists of the main specification
TeamSegLists ==
  { << [teamId |-> "Red", roundsWon |-> 13], [teamId |-> "Blue", roundsWon |-> 7] >> }

\* rows for the telemetry shapes: ids 9 and 1 share a hash slot, "za" holds
\* the name part of 'a#..' and 'z#..' identifiers, "@z" is a name with '@'
WidePlayerPool ==
  { [id |-> 9, name |-> <<"b">>,      riot_id |-> <<"b", "#", "1">>, default_team_id |-> 1],
    [id |-> 1, name |-> <<"z", "a">>, riot_id |-> <<"a", "#", "7">>, default_team_id |-> 1],
    [id |-> 3, name |-> <<"c">>,      riot_id |-> None,              default_team_id |-> 2],
    [id |-> 4, name |-> <<"@", "z">>, riot_id |-> None,              default_team_id |-> 2],
    [id |-> 5, name |-> <<"e">>,      riot_id |-> <<"E", "#", "5">>, default_team_id |-> NoId] }

WidePlayerTables ==
  {T \in SUBSET WidePlayerPool : Cardinality(T) <= MaxWidePlayers}

WidePlayerSegLists ==
  UNION { UNION { { [k \in 1..Len(ord) |-> PlayerSeg(ord[k], sd[ord[k]])] :
                      sd \in [I -> Sides] } : ord \in Listings(I) } :
          I \in {J \in SUBSET (1..Len(IdentPool)) : Cardinality(J) <= MaxWideSegs} }

\* team-summary segment lists: none, one, the same teamId twice, either
\* order of the two sides, and equal rounds
WideTeamSegLists ==
  { << >>,
    << [teamId |-> "Red", roundsWon |-> 13] >>,
    << [teamId |-> "Red", roundsWon |-> 13], [teamId |-> "Red", roundsWon |-> 7] >>,
    << [teamId |-> "Red", roundsWon |-> 13], [teamId |-> "Blue", roundsWon |-> 7] >>,
    << [teamId |-> "Blue", roundsWon |-> 7], [teamId |-> "Red", roundsWon |-> 13] >>,
    << [teamId |-> "Red", roundsWon |-> 12], [teamId |-> "Blue", roundsWon |-> 12] >> }

(* ---------------------------- state ------------------------------------ *)
VARIABLES
  players,            \* the players table
  all_players_cache,  \* st.cache_data entry of get_all_players
  snapshot,           \* history: the frame the parse at hand has read
  teamSegs,           \* team-summary segments of the telemetry, in order
  playerSegs,         \* player-summary segments of the telemetry, in order
  m_info,             \* the matches row being edited: team1_id, team2_id
  pc,                 \* position of the admin in the match editor
  tracker_team_1_id,  \* parse_tracker_json: the side resolved to team 1
  suggestions,        \* parse_tracker_json: json_suggestions, insertion order
  t1_r, t2_r,         \* parse_tracker_json: rounds of team 1 and team 2
  preview_list,       \* show_admin_matches: t1_preview_list, t2_preview_list
  resolved_players,   \* save_match_result: the pre-resolved entries
  missing,            \* save_match_result: t1_missing, t2_missing as listed
  matches,            \* the matches row: status, score_t1, score_t2, winner_id
  match_maps,         \* the match_maps rows of the match
  match_stats_map,    \* the match_stats_map rows of the match, insertion order
  all_teams_entries   \* dashboard editor: the scoreboard rows of both teams

editorVars == <<players, all_players_cache, snapshot, teamSegs, playerSegs, m_info, pc, tracker_team_1_id,
          suggestions, t1_r, t2_r, preview_list, resolved_players, missing,
          matches, match_maps, match_stats_map, all_teams_entries>>

\* the shared SQLite file and the connections of two concurrent saves
VARIABLES
  store,              \* committed and in-transaction content of the three match tables
  conn,               \* per actor: the save at hand, its statements left, its journal
  db_lock,            \* the actor holding SQLite's write lock, or NoActor
  last_commit         \* history: the actor whose transaction committed last

saveVars == <<store, conn, db_lock, last_commit>>

\* the upload handler of the match editor
VARIABLES
  js_data,            \* the uploaded telemetry as json.load returns it
  outcome             \* what the handler did with it: error, nothing, preview

docVars == <<js_data, outcome>>

\* the portal: sessions, the login screen and the activity table
VARIABLES
  now,                \* time.time(), in seconds
  session_state,      \* per visitor: st.session_state of the session
  session_activity,   \* the session_activity table
  ADMIN_LOGIN_TOKEN,  \* the secret, or NoSecret when it is not configured
  last_run,           \* history: what the last script run did
  fail_budget         \* failed submissions the model still follows

authVars == <<now, session_state, session_activity, ADMIN_LOGIN_TOKEN,
              last_run, fail_budget>>

\* player maintenance: the tables it reads and writes
VARIABLES
  db,                 \* the players, match_stats_map and match_stats tables
  last_action         \* history: the maintenance button pressed last

maintVars == <<db, last_action>>

\* no connection holds the write lock
NoActor == "nobody"

\* the variables the match editor leaves alone
otherVars == <<saveVars, docVars, authVars, maintVars>>

\* the variables the concurrent saves leave alone
saveRest == <<editorVars, docVars, authVars, maintVars>>

\* the variables the upload handler leaves alone
docRest == <<editorVars, saveVars, authVars, maintVars>>

\* the variables the portal leaves alone
authRest == <<editorVars, saveVars, docVars, maintVars>>

\* the variables player maintenance leaves alone
maintRest == <<editorVars, saveVars, docVars, authVars>>

\* player maintenance at rest
MaintIdle ==
  /\ db = <<>>
  /\ last_action = "none"

\* the portal at rest
AuthIdle ==
  /\ now = 0
  /\ session_state = <<>>
  /\ session_activity = {}
  /\ ADMIN_LOGIN_TOKEN = <<>>
  /\ last_run = <<>>
  /\ fail_budget = 0

vars == <<editorVars, otherVars>>

\* the other parts of the program at rest
OtherIdle ==
  /\ store = <<>>
  /\ conn = <<>>
  /\ db_lock = NoActor
  /\ last_commit = NoActor
  /\ js_data = <<>>
  /\ outcome = <<>>
  /\ AuthIdle
  /\ MaintIdle

(* ---------------------------- get_all_players -------------------------- *)
\* SELECT ... FROM players ORDER BY name
get_all_players(T) ==
  CHOOSE f \in Perms(T) :
    \A i, j \in 1..Cardinality(T) : i < j => StrLess(f[i].name, f[j].name)

\* the cache entry before the first call and after st.cache_data.clear()
NoCache == [valid |-> FALSE, df |-> <<>>]

\* @st.cache_data: the cached frame while there is one, else a fresh query
cached_get_all_players(cache, T) ==
  IF cache.valid THEN cache.df ELSE get_all_players(T)

(* ---------------------------- parse_tracker_json ----------------------- *)
\* rid = platformUserIdentifier, or platformUserHandle when that is falsy
SegRid(seg) ==
  IF Truthy(seg.platformUserIdentifier) THEN seg.platformUserIdentifier
  ELSE seg.platformUserHandle

\* riot_id_to_name.get(k): a dict built in table order, the last row wins
riot_id_to_name(df, k) ==
  LET idx == {i \in 1..Len(df) :
                df[i].riot_id # None /\ Lower(Strip(df[i].riot_id)) = k}
  IN IF idx = {} THEN None ELSE df[SetMax(idx)].name

\* name_to_name.get(k)
name_to_name(df, k) ==
  LET idx == {i \in 1..Len(df) : Lower(Strip(df[i].name)) = k}
  IN IF idx = {} THEN None ELSE df[SetMax(idx)].name

\* matched_name that tries the name rules before the riot id
matched_name_name_first(df, rid) ==
  LET rid_lower == Lower(rid)
      byRiot == riot_id_to_name(df, rid_lower)
      name_part == Lower(SplitHash(rid))
      byPart == name_to_name(df, name_part)
      byFull == name_to_name(df, rid_lower)
  IN IF Truthy(byPart) THEN byPart
     ELSE IF Truthy(byFull) THEN byFull
     ELSE byRiot

\* the name of the players row the (stripped) identifier rid resolves to
matched_name(df, rid) ==
  LET rid_lower == Lower(rid)
      byRiot == riot_id_to_name(df, rid_lower)
      name_part == Lower(SplitHash(rid))
      byPart == name_to_name(df, name_part)
  IN IF Truthy(byRiot) THEN byRiot
     ELSE IF Truthy(byPart) THEN byPart
     ELSE name_to_name(df, rid_lower)

\* is_t1 / is_t2: does rid match a member of the roster rows
is_roster_match(rid, roster) ==
  LET rid_clean == Lower(Strip(rid))
      name_part == SplitHash(rid_clean)
      rids == {Lower(Strip(r.riot_id)) : r \in {q \in roster : q.riot_id # None}}
      names == {Lower(Strip(r.name)) : r \in roster}
      names_clean == {Strip(RemoveAt(n)) : n \in names}
  IN \/ rid_clean \in rids
     \/ rid_clean \in names
     \/ name_part \in names
     \/ name_part \in names_clean
     \/ \E tn \in names_clean : Contains(tn, name_part) \/ Contains(name_part, tn)

\* the rows of the players table whose default team is tid
RosterRows(T, tid) == {r \in T : r.default_team_id = tid}

\* scores[t_id][k] after the player-summary segments i..Len(segs)
RECURSIVE CountScore(_, _, _, _, _)
CountScore(segs, i, ids, t_id, roster) ==
  IF i > Len(segs) THEN 0
  ELSE (IF /\ segs[i].teamId \in ids
           /\ segs[i].teamId = t_id
           /\ Truthy(SegRid(segs[i]))
           /\ is_roster_match(SegRid(segs[i]), roster)
        THEN 1 ELSE 0) + CountScore(segs, i + 1, ids, t_id, roster)

\* Decide with the comparison of the two totals left out of the first test
Decide_first_nonzero(score_a, score_b, ids) ==
  IF score_a > 0 THEN ids[1]
  ELSE IF score_b > score_a THEN ids[2]
  ELSE ids[1]

\* the decision of lines 198-210 on the two option totals
Decide(score_a, score_b, ids) ==
  IF score_a >= score_b /\ score_a > 0 THEN ids[1]
  ELSE IF score_b > score_a THEN ids[2]
  ELSE ids[1]

\* tracker_team_1_id: the side of the telemetry that is our team 1
ResolveSide(tsegs, psegs, T, team1_id, team2_id) ==
  IF Len(tsegs) >= 2 THEN
    LET ids == [i \in 1..Len(tsegs) |-> tsegs[i].teamId]
        r1 == RosterRows(T, team1_id)
        r2 == RosterRows(T, team2_id)
        score_a == CountScore(psegs, 1, Range(ids), ids[1], r1)
                   + CountScore(psegs, 1, Range(ids), ids[2], r2)
        score_b == CountScore(psegs, 1, Range(ids), ids[1], r2)
                   + CountScore(psegs, 1, Range(ids), ids[2], r1)
    IN Decide(score_a, score_b, ids)
  ELSE IF Len(tsegs) >= 1 THEN tsegs[1].teamId
  ELSE NoSide

\* json_suggestions[key] = rec : a dict keeps the position of an existing key
DictSet(d, rec) ==
  IF \E i \in 1..Len(d) : d[i].key = rec.key
  THEN [i \in 1..Len(d) |-> IF d[i].key = rec.key THEN rec ELSE d[i]]
  ELSE Append(d, rec)

\* json_suggestions after the player-summary segments 1..n
RECURSIVE BuildSuggestions(_, _, _, _)
BuildSuggestions(segs, n, df, tt1) ==
  IF n = 0 THEN <<>>
  ELSE LET d == BuildSuggestions(segs, n - 1, df, tt1)
           seg == segs[n]
           raw == SegRid(seg)
           rid == IF Truthy(raw) THEN Strip(raw) ELSE raw
           mn == matched_name(df, rid)
       IN IF Truthy(rid)
          THEN DictSet(d, [key |-> Lower(rid),
                           name |-> mn,
                           tracker_name |-> rid,
                           acs |-> seg.scorePerRound,
                           agent |-> seg.agentName,
                           team_num |-> IF seg.teamId = tt1 THEN 1 ELSE 2,
                           conf |-> IF Truthy(mn) THEN 100 ELSE 80])
          ELSE d

\* what parse_tracker_json returns (the map name is copied through)
ParseResult(sug, r1, r2) ==
  [json_suggestions |-> sug, t1_rounds |-> r1, t2_rounds |-> r2]

\* t1_r, t2_r of lines 263-276
Rounds(tsegs, tt1) ==
  IF Len(tsegs) >= 2
  THEN IF tt1 = tsegs[1].teamId
       THEN <<tsegs[1].roundsWon, tsegs[2].roundsWon>>
       ELSE <<tsegs[2].roundsWon, tsegs[1].roundsWon>>
  ELSE <<0, 0>>

(* ---------------------------- save_match_result --------------------- *)
\* SELECT id, default_team_id FROM players WHERE name=? , per suggestion
ResolvePlayers(T, sug) ==
  [i \in 1..Len(sug) |->
     LET rows == {r \in T : Truthy(sug[i].name) /\ r.name = sug[i].name}
         found == rows # {}
         p_row == CHOOSE r \in rows : TRUE
     IN [riot_id |-> sug[i].key,
         stats |-> sug[i],
         pid |-> IF found THEN p_row.id ELSE NoId,
         default_tid |-> IF found THEN p_row.default_team_id ELSE NoId]]

\* t1_present_ids / t2_present_ids
PresentIds(res, num) ==
  {res[i].pid : i \in {j \in 1..Len(res) :
                         res[j].pid # NoId /\ res[j].stats.team_num = num}}

\* SELECT id FROM players WHERE default_team_id=?
RosterIds(T, tid) == {r.id : r \in RosterRows(T, tid)}

\* the ids as the query lists them: SQLite scans the table by rowid
roster_id_list(T, tid) == SortAsc(RosterIds(T, tid))

\* MatchTeam with the two teams exchanged
MatchTeam_swapped(info, num) == IF num = 1 THEN info.team2_id ELSE info.team1_id

\* the team the rows of a suggestion are stored under
MatchTeam(info, num) == IF num = 1 THEN info.team1_id ELSE info.team2_id

\* IsSub that takes a free agent (no default team) for a starter
IsSub_free_agent_starter(pid, default_tid, team_id) ==
  pid # NoId /\ default_tid # NoId /\ default_tid # team_id

\* is_sub: the player's default team is not the team played for
IsSub(pid, default_tid, team_id) == pid # NoId /\ default_tid # team_id

\* the loop of lines 454-489 from entry i on, with the missing lists m1, m2
RECURSIVE StatRows(_, _, _, _, _)
StatRows(res, i, m1, m2, info) ==
  IF i > Len(res) THEN <<>>
  ELSE LET p == res[i]
           num == p.stats.team_num
           team_id == MatchTeam(info, num)
           is_sub == IsSub(p.pid, p.default_tid, team_id)
           pop1 == is_sub /\ num = 1 /\ m1 # <<>>
           pop2 == is_sub /\ num # 1 /\ m2 # <<>>
           row == [team_id |-> team_id,
                   player_id |-> p.pid,
                   acs |-> p.stats.acs,
                   is_sub |-> IF is_sub THEN 1 ELSE 0,
                   subbed_for_id |-> IF pop1 THEN Head(m1)
                                     ELSE IF pop2 THEN Head(m2) ELSE NoId]
       IN <<row>> \o StatRows(res, i + 1,
                              IF pop1 THEN Tail(m1) ELSE m1,
                              IF pop2 THEN Tail(m2) ELSE m2, info)

\* Winner without the draw of line 397
Winner_no_draw(info, r1, r2) ==
  IF r1 > r2 THEN info.team1_id ELSE info.team2_id

\* winner of lines 396-397
Winner(info, r1, r2) ==
  IF r1 = r2 THEN NoId
  ELSE IF r1 > r2 THEN info.team1_id ELSE info.team2_id

(* ---------------------------- show_admin_matches ----------------------- *)
\* pid of the preview: all_players_df[all_players_df['name'] == s['name']]
PreviewPid(T, s) ==
  LET rows == {r \in T : Truthy(s.name) /\ r.name = s.name}
  IN IF rows = {} THEN NoId ELSE (CHOOSE r \in rows : TRUE).id

\* the second pass of lines 181-236 from suggestion i on
RECURSIVE PreviewItems(_, _, _, _, _, _)
PreviewItems(T, sug, i, m1, m2, info) ==
  IF i > Len(sug) THEN <<>>
  ELSE LET s == sug[i]
           pid == PreviewPid(T, s)
           assigned == RosterIds(T, MatchTeam(info, s.team_num))
           sub == pid # NoId /\ pid \notin assigned
           pop1 == sub /\ s.team_num = 1 /\ m1 # <<>>
           pop2 == sub /\ s.team_num # 1 /\ m2 # <<>>
           item == [data |-> s,
                    pid |-> pid,
                    status |-> IF pid = NoId THEN "NOT_FOUND"
                               ELSE IF sub THEN "SUB" ELSE "OK",
                    subbed_for |-> IF pop1 THEN Head(m1)
                                   ELSE IF pop2 THEN Head(m2) ELSE NoId]
       IN <<item>> \o PreviewItems(T, sug, i + 1,
                                   IF pop1 THEN Tail(m1) ELSE m1,
                                   IF pop2 THEN Tail(m2) ELSE m2, info)

\* the present ids of the first pass of lines 152-164
PreviewPresent(T, sug, num) ==
  {PreviewPid(T, sug[i]) : i \in {j \in 1..Len(sug) :
      PreviewPid(T, sug[j]) # NoId /\ sug[j].team_num = num}}

(* ---------------------------- dashboard match editor ---------------- *)
\* rows of one team's scoreboard in the editor
RowsPerTeam == 5

\* display_label: "name (riot_id)" when the row has a riot id, else the name
display_label(r) ==
  IF Truthy(r.riot_id) /\ Strip(r.riot_id) # <<>>
  THEN r.name \o <<" ", "(">> \o r.riot_id \o <<")">>
  ELSE r.name

\* global_list
global_list(df) == [i \in 1..Len(df) |-> display_label(df[i])]

\* has_riot: the row has a riot id that is not blank
has_riot(r) == r.riot_id # None /\ Strip(r.riot_id) # <<>>

\* global_map.get(label) and roster_map.get(label): built in row order, the
\* last row of a label wins
global_map(df, label) ==
  LET idx == {i \in 1..Len(df) : display_label(df[i]) = label}
  IN IF idx = {} THEN NoId ELSE df[SetMax(idx)].id

\* label_to_riot.get(label)
label_to_riot(df, label) ==
  LET idx == {i \in 1..Len(df) : has_riot(df[i]) /\ display_label(df[i]) = label}
  IN IF idx = {} THEN None ELSE Lower(Strip(df[SetMax(idx)].riot_id))

\* riot_to_label.get(k)
riot_to_label(df, k) ==
  LET idx == {i \in 1..Len(df) :
                has_riot(df[i]) /\ Lower(Strip(df[i].riot_id)) = k}
  IN IF idx = {} THEN None ELSE display_label(df[SetMax(idx)])

\* roster_df: the rows of team_id, sorted by name
roster_df(df, team_id) == SelectSeq(df, LAMBDA r : r.default_team_id = team_id)

\* all_players_df[all_players_df['default_team_id'] == tid]['id'].tolist()
frame_id_list(df, tid) ==
  [i \in 1..Len(roster_df(df, tid)) |-> roster_df(df, tid)[i].id]

\* k in sug
SugHas(sug, k) == \E i \in 1..Len(sug) : sug[i].key = k

\* sug[k]
SugGet(sug, k) == sug[CHOOSE i \in 1..Len(sug) : sug[i].key = k]

\* db_label of a suggestion: by riot id, else by the matched name
db_label(df, s) ==
  LET byRiot == riot_to_label(df, Lower(s.key))
      gl == global_list(df)
      hits == {i \in 1..Len(gl) :
                 gl[i] = s.name \/ StartsWith(gl[i], s.name \o <<" ", "(">>)}
  IN IF Truthy(byRiot) THEN byRiot
     ELSE IF Truthy(s.name) /\ hits # {}
          THEN gl[CHOOSE i \in hits : \A j \in hits : i <= j]
          ELSE None

\* missing_roster.pop(0) if missing_roster else roster_list[0] if any else ""
PopOrFirst(miss, roster_list) ==
  IF miss # <<>> THEN Head(miss)
  ELSE IF roster_list # <<>> THEN roster_list[1] ELSE <<>>

\* the while loop of line 3446: filler rows up to RowsPerTeam
RECURSIVE FillRows(_, _, _)
FillRows(n, miss, roster_list) ==
  IF n >= RowsPerTeam THEN <<>>
  ELSE LET l == PopOrFirst(miss, roster_list)
       IN <<[player |-> l, is_sub |-> FALSE, subbed_for |-> l, acs |-> 0]>>
          \o FillRows(n + 1, IF miss # <<>> THEN Tail(miss) ELSE miss, roster_list)

\* the loop over json_subs of lines 3442-3445, then the filler rows
RECURSIVE SubRows(_, _, _, _, _, _)
SubRows(df, subs, i, n, miss, roster_list) ==
  IF i > Len(subs) \/ n >= RowsPerTeam THEN FillRows(n, miss, roster_list)
  ELSE LET l == db_label(df, subs[i])
       IN <<[player |-> IF Truthy(l) THEN l ELSE <<>>,
             is_sub |-> TRUE,
             subbed_for |-> PopOrFirst(miss, roster_list),
             acs |-> subs[i].acs]>>
          \o SubRows(df, subs, i + 1, n + 1,
                     IF miss # <<>> THEN Tail(miss) ELSE miss, roster_list)

\* rows of one team when the suggestions are applied (lines 3427-3448)
AutoFillRows(df, sug, num, team_id) ==
  LET roster_list == global_list(roster_df(df, team_id))
      team_sug == SelectSeq(sug, LAMBDA s : s.team_num = num)
      OnRoster(s) == Truthy(db_label(df, s)) /\ db_label(df, s) \in Range(roster_list)
      json_roster_matches == SelectSeq(team_sug, OnRoster)
      json_subs == SelectSeq(team_sug, LAMBDA s : ~OnRoster(s))
      used_roster == {db_label(df, json_roster_matches[i]) :
                        i \in 1..Len(json_roster_matches)}
      missing_roster == SelectSeq(roster_list, LAMBDA l : l \notin used_roster)
  IN [i \in 1..Len(json_roster_matches) |->
        [player |-> db_label(df, json_roster_matches[i]),
         is_sub |-> FALSE,
         subbed_for |-> db_label(df, json_roster_matches[i]),
         acs |-> json_roster_matches[i].acs]]
     \o SubRows(df, json_subs, 1, Len(json_roster_matches), missing_roster,
                roster_list)

\* the entry the form yields for a row whose widgets keep their defaults
FormEntry(df, sug, team_id, rowd) ==
  LET gl == global_list(df)
      roster == roster_df(df, team_id)
      roster_list == global_list(roster)
      psel == IF rowd.player \in Range(gl) THEN rowd.player ELSE <<>>
      rid_psel == label_to_riot(df, psel)
      sf_sel == IF rowd.subbed_for \in Range(roster_list) THEN rowd.subbed_for
                ELSE IF roster_list # <<>> THEN roster_list[1] ELSE <<>>
      has_s == Truthy(rid_psel) /\ SugHas(sug, rid_psel)
  IN [player_id |-> global_map(df, psel),
      is_sub |-> IF rowd.is_sub THEN 1 ELSE 0,
      subbed_for_id |-> global_map(roster, sf_sel),
      acs |-> IF has_s THEN SugGet(sug, rid_psel).acs ELSE rowd.acs]

\* team_entries of one team
TeamEntries(df, sug, num, team_id) ==
  LET rows == AutoFillRows(df, sug, num, team_id)
  IN [i \in 1..Len(rows) |-> FormEntry(df, sug, team_id, rows[i])]

\* the rows inserted for one team: entries with a player_id
InsertedRows(team_id, entries) ==
  LET kept == SelectSeq(entries, LAMBDA e : e.player_id # NoId)
  IN [i \in 1..Len(kept) |->
        [team_id |-> team_id,
         player_id |-> kept[i].player_id,
         acs |-> kept[i].acs,
         is_sub |-> kept[i].is_sub,
         subbed_for_id |-> kept[i].subbed_for_id]]

\* pre_map_win of lines 3267-3277 for a map that has no row yet
PreMapWin(info, r1, r2) ==
  IF r1 > r2 THEN info.team1_id
  ELSE IF r2 > r1 THEN info.team2_id ELSE NoId

(* ---------------------------- actions ---------------------------------- *)
Init ==
  /\ OtherIdle
  /\ players \in PlayerTables
  /\ all_players_cache = NoCache
  /\ snapshot = <<>>
  /\ teamSegs \in TeamSegLists
  /\ playerSegs \in PlayerSegLists
  /\ m_info = [team1_id |-> 1, team2_id |-> 2]
  /\ pc = "editor"
  /\ tracker_team_1_id = NoSide
  /\ suggestions = <<>>
  /\ t1_r = 0
  /\ t2_r = 0
  /\ preview_list = <<>>
  /\ resolved_players = <<>>
  /\ missing = <<>>
  /\ matches = [status |-> "scheduled", score_t1 |-> 0, score_t2 |-> 0,
                winner_id |-> NoId]
  /\ match_maps = <<>>
  /\ match_stats_map = <<>>
  /\ all_teams_entries = <<>>

\* "Parse & Preview" / "Apply Match Data": parse_tracker_json on the document
Parse ==
  /\ UNCHANGED otherVars
  /\ pc = "editor"
  /\ LET df == cached_get_all_players(all_players_cache, players)
         tt1 == ResolveSide(teamSegs, playerSegs, Range(df),
                            m_info.team1_id, m_info.team2_id)
         rr == Rounds(teamSegs, tt1)
     IN /\ all_players_cache' = [valid |-> TRUE, df |-> df]
        /\ snapshot' = df
        /\ tracker_team_1_id' = tt1
        /\ suggestions' = BuildSuggestions(playerSegs, Len(playerSegs), df, tt1)
        /\ t1_r' = rr[1]
        /\ t2_r' = rr[2]
  /\ pc' = "parsed"
  /\ UNCHANGED <<players, teamSegs, playerSegs, m_info, preview_list,
                 resolved_players, missing, matches, match_maps,
                 match_stats_map, all_teams_entries>>

\* the "Match Preview" of show_admin_matches
Preview ==
  /\ UNCHANGED otherVars
  /\ pc = "parsed"
  /\ LET df == cached_get_all_players(all_players_cache, players)
         m1 == PySetList(frame_id_list(df, m_info.team1_id),
                         PreviewPresent(Range(df), suggestions, 1))
         m2 == PySetList(frame_id_list(df, m_info.team2_id),
                         PreviewPresent(Range(df), suggestions, 2))
     IN /\ all_players_cache' = [valid |-> TRUE, df |-> df]
        /\ preview_list' =
             PreviewItems(Range(df), suggestions, 1, m1, m2, m_info)
  /\ pc' = "preview"
  /\ UNCHANGED <<snapshot, players, teamSegs, playerSegs, m_info, tracker_team_1_id,
                 suggestions, t1_r, t2_r, resolved_players, missing, matches,
                 match_maps, match_stats_map, all_teams_entries>>

\* "CONFIRM & SAVE MATCH": save_match_result, then the preview is dropped
SaveMatchResult ==
  /\ UNCHANGED otherVars
  /\ pc = "preview"
  /\ LET res == ResolvePlayers(players, suggestions)
         winner == Winner(m_info, t1_r, t2_r)
         m1 == PySetList(roster_id_list(players, m_info.team1_id),
                         PresentIds(res, 1))
         m2 == PySetList(roster_id_list(players, m_info.team2_id),
                         PresentIds(res, 2))
     IN /\ resolved_players' = res
        /\ missing' = <<m1, m2>>
        /\ match_stats_map' = StatRows(res, 1, m1, m2, m_info)
        /\ matches' = [status |-> "completed", score_t1 |-> t1_r,
                       score_t2 |-> t2_r, winner_id |-> winner]
        /\ match_maps' = <<[team1_rounds |-> t1_r, team2_rounds |-> t2_r,
                            winner_id |-> winner]>>
  /\ pc' = "saved"
  /\ suggestions' = <<>>
  /\ preview_list' = <<>>
  /\ UNCHANGED <<snapshot, players, all_players_cache, teamSegs, playerSegs, m_info, tracker_team_1_id,
                 t1_r, t2_r, all_teams_entries>>

\* "Cancel": the preview is dropped from the session state
Cancel ==
  /\ UNCHANGED otherVars
  /\ pc = "preview"
  /\ pc' = "editor"
  /\ suggestions' = <<>>
  /\ preview_list' = <<>>
  /\ tracker_team_1_id' = NoSide
  /\ t1_r' = 0
  /\ t2_r' = 0
  /\ UNCHANGED <<snapshot, players, all_players_cache, teamSegs, playerSegs, m_info, resolved_players,
                 missing, matches, match_maps, match_stats_map,
                 all_teams_entries>>

\* dashboard editor: the scoreboard form rendered from the applied suggestions
AutoFill ==
  /\ UNCHANGED otherVars
  /\ pc = "parsed"
  /\ LET df == cached_get_all_players(all_players_cache, players)
     IN /\ all_players_cache' = [valid |-> TRUE, df |-> df]
        /\ all_teams_entries' =
             << [team_id |-> m_info.team1_id,
                 entries |-> TeamEntries(df, suggestions, 1, m_info.team1_id)],
                [team_id |-> m_info.team2_id,
                 entries |-> TeamEntries(df, suggestions, 2, m_info.team2_id)] >>
  /\ pc' = "form"
  /\ UNCHANGED <<snapshot, players, teamSegs, playerSegs, m_info, tracker_team_1_id,
                 suggestions, t1_r, t2_r, preview_list, resolved_players,
                 missing, matches, match_maps, match_stats_map>>

\* dashboard editor: "Save Map Details & Scoreboard" on the unchanged form
DashSave ==
  /\ UNCHANGED otherVars
  /\ pc = "form"
  /\ LET wid == PreMapWin(m_info, t1_r, t2_r)
         final_s1 == IF wid = m_info.team1_id THEN 1 ELSE 0
         final_s2 == IF wid = m_info.team2_id THEN 1 ELSE 0
     IN /\ match_maps' = <<[team1_rounds |-> t1_r, team2_rounds |-> t2_r,
                            winner_id |-> wid]>>
        /\ matches' = [status |-> "completed", score_t1 |-> final_s1,
                       score_t2 |-> final_s2,
                       winner_id |-> IF final_s1 > final_s2 THEN m_info.team1_id
                                     ELSE IF final_s2 > final_s1
                                          THEN m_info.team2_id ELSE NoId]
  /\ match_stats_map' =
       InsertedRows(all_teams_entries[1].team_id, all_teams_entries[1].entries)
       \o InsertedRows(all_teams_entries[2].team_id, all_teams_entries[2].entries)
  /\ pc' = "dash_saved"
  /\ all_players_cache' = NoCache
  /\ UNCHANGED <<snapshot, players, teamSegs, playerSegs, m_info, tracker_team_1_id,
                 suggestions, t1_r, t2_r, preview_list, resolved_players,
                 missing, all_teams_entries>>

Next ==
  \/ Parse
  \/ Preview
  \/ SaveMatchResult
  \/ Cancel
  \/ AutoFill
  \/ DashSave

Spec == Init /\ [][Next]_vars

\* the same editor on every shape of the team-summary segments
InitWide ==
  /\ OtherIdle
  /\ players \in WidePlayerTables
  /\ all_players_cache = NoCache
  /\ snapshot = <<>>
  /\ teamSegs \in WideTeamSegLists
  /\ playerSegs \in WidePlayerSegLists
  /\ m_info = [team1_id |-> 1, team2_id |-> 2]
  /\ pc = "editor"
  /\ tracker_team_1_id = NoSide
  /\ suggestions = <<>>
  /\ t1_r = 0
  /\ t2_r = 0
  /\ preview_list = <<>>
  /\ resolved_players = <<>>
  /\ missing = <<>>
  /\ matches = [status |-> "scheduled", score_t1 |-> 0, score_t2 |-> 0,
                winner_id |-> NoId]
  /\ match_maps = <<>>
  /\ match_stats_map = <<>>
  /\ all_teams_entries = <<>>

SpecWide == InitWide /\ [][Next]_vars

(* ---------------------------- roster edits by another admin ------------ *)
\* UPDATE players SET default_team_id=? WHERE id=?
SetDefaultTeam(T, pid, tid) ==
  {IF r.id = pid THEN [r EXCEPT !.default_team_id = tid] ELSE r : r \in T}

\* the players rows that are not as the parse at hand has read them
EditedRows == {r \in players : r \notin Range(snapshot)}

\* the reconciliation is between its parse and its save
Reconciling == pc \in {"parsed", "preview", "form"}

\* Teams page, "Add Player": an unassigned player joins the roster of a team;
\* the page reruns, the cache is left as it is
AddPlayer ==
  /\ UNCHANGED otherVars
  /\ Reconciling
  /\ Cardinality(EditedRows) < MaxEdits
  /\ \E r \in players, tid \in {m_info.team1_id, m_info.team2_id} :
       /\ r.default_team_id = NoId
       /\ players' = SetDefaultTeam(players, r.id, tid)
  /\ UNCHANGED <<all_players_cache, snapshot, teamSegs, playerSegs, m_info, pc,
                 tracker_team_1_id, suggestions, t1_r, t2_r, preview_list,
                 resolved_players, missing, matches, match_maps,
                 match_stats_map, all_teams_entries>>

\* Teams page, "Remove Player": a roster member becomes a free agent
RemovePlayer ==
  /\ UNCHANGED otherVars
  /\ Reconciling
  /\ Cardinality(EditedRows) < MaxEdits
  /\ \E r \in players :
       /\ r.default_team_id # NoId
       /\ players' = SetDefaultTeam(players, r.id, NoId)
  /\ UNCHANGED <<all_players_cache, snapshot, teamSegs, playerSegs, m_info, pc,
                 tracker_team_1_id, suggestions, t1_r, t2_r, preview_list,
                 resolved_players, missing, matches, match_maps,
                 match_stats_map, all_teams_entries>>

\* ttl=300: the cached frame of get_all_players expires
CacheExpire ==
  /\ UNCHANGED otherVars
  /\ all_players_cache.valid
  /\ all_players_cache' = NoCache
  /\ UNCHANGED <<players, snapshot, teamSegs, playerSegs, m_info, pc,
                 tracker_team_1_id, suggestions, t1_r, t2_r, preview_list,
                 resolved_players, missing, matches, match_maps,
                 match_stats_map, all_teams_entries>>

\* the players tables the edited reconciliation starts from: a roster member
\* of each team and a free agent
EditPlayerTables == SUBSET {r \in WidePlayerPool : r.id \in {9, 3, 5}}

\* one reconciliation with one player-summary segment at most
InitEdit ==
  /\ OtherIdle
  /\ players \in EditPlayerTables
  /\ all_players_cache = NoCache
  /\ snapshot = <<>>
  /\ teamSegs \in TeamSegLists
  /\ playerSegs \in {l \in WidePlayerSegLists : Len(l) <= 1}
  /\ m_info = [team1_id |-> 1, team2_id |-> 2]
  /\ pc = "editor"
  /\ tracker_team_1_id = NoSide
  /\ suggestions = <<>>
  /\ t1_r = 0
  /\ t2_r = 0
  /\ preview_list = <<>>
  /\ resolved_players = <<>>
  /\ missing = <<>>
  /\ matches = [status |-> "scheduled", score_t1 |-> 0, score_t2 |-> 0,
                winner_id |-> NoId]
  /\ match_maps = <<>>
  /\ match_stats_map = <<>>
  /\ all_teams_entries = <<>>

NextEdit ==
  \/ Next
  \/ AddPlayer
  \/ RemovePlayer
  \/ CacheExpire

SpecEdit == InitEdit /\ [][NextEdit]_vars

(* ---------------------------- properties ------------------------------- *)
\* the parse result is held in the session state
HasParse == pc \in {"parsed", "preview", "form", "dash_saved"}

\* save_match_result has written the report
AdminSaved == pc = "saved"

\* the dashboard editor has written the report
DashSaved == pc = "dash_saved"

\* the entries of the reconciliation at hand, in telemetry order
Entries ==
  IF AdminSaved
  THEN [i \in 1..Len(resolved_players) |-> resolved_players[i].stats]
  ELSE suggestions

\* overlap(side, team): the players of a side that match the team's roster
Overlap(side, team_id) ==
  Cardinality({i \in 1..Len(playerSegs) :
     /\ playerSegs[i].teamId = side
     /\ Truthy(SegRid(playerSegs[i]))
     /\ is_roster_match(SegRid(playerSegs[i]), RosterRows(players, team_id))})

TotalFirst ==
  Overlap(teamSegs[1].teamId, m_info.team1_id)
  + Overlap(teamSegs[2].teamId, m_info.team2_id)

TotalSwapped ==
  Overlap(teamSegs[1].teamId, m_info.team2_id)
  + Overlap(teamSegs[2].teamId, m_info.team1_id)

\* every entry is on team 1 exactly when its segment is on side
MappedTo(side) ==
  /\ tracker_team_1_id = side
  /\ \A k \in 1..Len(suggestions) :
       \E i \in 1..Len(playerSegs) :
         /\ Truthy(SegRid(playerSegs[i]))
         /\ Lower(Strip(SegRid(playerSegs[i]))) = suggestions[k].key
         /\ suggestions[k].team_num = (IF playerSegs[i].teamId = side THEN 1 ELSE 2)

\* the result of the parse carries an ambiguity flag, and it is set
AmbiguousReported ==
  /\ "ambiguous" \in DOMAIN ParseResult(suggestions, t1_r, t2_r)
  /\ ParseResult(suggestions, t1_r, t2_r)["ambiguous"] = TRUE

\* C1: with two team-summary segments the mapping with the strictly higher
\* overlap total is chosen (side0->team1 when the first total is higher,
\* side0->team2 when the swapped total is higher) and no ambiguity is reported
C1_StrictlyHigherTotalWins ==
  (HasParse /\ Len(teamSegs) >= 2) =>
     /\ TotalFirst > TotalSwapped => MappedTo(teamSegs[1].teamId)
     /\ TotalSwapped > TotalFirst => MappedTo(teamSegs[2].teamId)
     /\ TotalFirst # TotalSwapped => ~AmbiguousReported

\* C1 witness: the swapped mapping won with at least two matching players
C1_Witness ==
  /\ pc = "parsed"
  /\ Len(teamSegs) >= 2
  /\ TotalSwapped >= 2
  /\ TotalSwapped > TotalFirst
  /\ TotalFirst > 0
  /\ MappedTo(teamSegs[2].teamId)

\* C2: on equal overlap totals (0-0 included) the first mapping is returned
\* and the result carries ambiguous = true
C2_TieIsFlaggedAmbiguous ==
  (HasParse /\ Len(teamSegs) >= 2 /\ TotalFirst = TotalSwapped) =>
     /\ MappedTo(teamSegs[1].teamId)
     /\ AmbiguousReported

\* C3: in the report written by save_match_result no player id occurs twice
\* among the rows of one team
C3_NoPlayerTwicePerTeam ==
  AdminSaved =>
    \A i, j \in 1..Len(match_stats_map) :
      (/\ i # j
       /\ match_stats_map[i].player_id # NoId
       /\ match_stats_map[i].team_id = match_stats_map[j].team_id)
      => match_stats_map[i].player_id # match_stats_map[j].player_id

\* C4: a subbed_for_id of the report is never the player_id of a row of the
\* same report, on either team
C4_SubbedForIsAbsent ==
  AdminSaved =>
    \A i, j \in 1..Len(match_stats_map) :
      match_stats_map[i].subbed_for_id # NoId
      => match_stats_map[j].player_id # match_stats_map[i].subbed_for_id

\* C5: the subbed_for_id values of the substitution rows of a team are members
\* of that team's default roster, and none occurs twice in the report
C5_RosterConservation ==
  (AdminSaved \/ DashSaved) =>
    \A i \in 1..Len(match_stats_map) :
      (match_stats_map[i].is_sub = 1 /\ match_stats_map[i].subbed_for_id # NoId)
      => /\ match_stats_map[i].subbed_for_id
              \in RosterIds(players, match_stats_map[i].team_id)
         /\ \A j \in 1..Len(match_stats_map) :
              (j # i /\ match_stats_map[j].is_sub = 1)
              => match_stats_map[j].subbed_for_id # match_stats_map[i].subbed_for_id

\* default_team_id of the player with the given id
DefaultTeamOf(id) == (CHOOSE r \in players : r.id = id).default_team_id

\* C6: a row with a resolved player is a substitution exactly when the
\* player's default team (none for a free agent) differs from the row's team;
\* a starter carries no subbed_for_id; the preview labels entries the same way
C6_SubFlagIffDefaultTeamDiffers ==
  /\ AdminSaved =>
       \A i \in 1..Len(match_stats_map) :
         match_stats_map[i].player_id # NoId
         => /\ match_stats_map[i].is_sub = 1
                 <=> DefaultTeamOf(match_stats_map[i].player_id)
                       # match_stats_map[i].team_id
            /\ match_stats_map[i].is_sub = 0
                 => match_stats_map[i].subbed_for_id = NoId
  /\ pc = "preview" =>
       \A i \in 1..Len(preview_list) :
         preview_list[i].pid # NoId
         => /\ preview_list[i].status = "SUB"
                 <=> DefaultTeamOf(preview_list[i].pid)
                       # MatchTeam(m_info, preview_list[i].data.team_num)
            /\ preview_list[i].status = "OK"
                 => preview_list[i].subbed_for = NoId

\* C6 witness: a saved report with a free agent recorded as a substitution
\* and a roster member recorded as a starter
C6_Witness ==
  /\ AdminSaved
  /\ \E i, j \in 1..Len(match_stats_map) :
       /\ match_stats_map[i].player_id # NoId
       /\ DefaultTeamOf(match_stats_map[i].player_id) = NoId
       /\ match_stats_map[i].is_sub = 1
       /\ match_stats_map[j].player_id # NoId
       /\ DefaultTeamOf(match_stats_map[j].player_id) = match_stats_map[j].team_id
       /\ match_stats_map[j].is_sub = 0

\* indices of the substitution rows of a team, in insertion order
SubRowIdx(team_id) ==
  SelectSeq([i \in 1..Len(match_stats_map) |-> i],
            LAMBDA i : match_stats_map[i].team_id = team_id
                       /\ match_stats_map[i].is_sub = 1)

\* indices of the substitution rows of a team that carry a player
PlayerSubRowIdx(team_id) ==
  SelectSeq(SubRowIdx(team_id), LAMBDA i : match_stats_map[i].player_id # NoId)

\* the roster members of a team that no entry of the team's side resolves to
MissingOf(num) ==
  RosterIds(players, MatchTeam(m_info, num))
  \ {r.id : r \in {q \in players :
        \E k \in 1..Len(Entries) :
          Entries[k].team_num = num /\ Entries[k].name = q.name}}

\* C7: the k-th substitution row of a side carries the k-th missing roster
\* member in ascending id order
C7_PairedInAscendingIdOrder ==
  AdminSaved =>
    \A num \in {1, 2} :
      LET subs == SubRowIdx(MatchTeam(m_info, num))
          queue == SortAsc(MissingOf(num))
      IN \A k \in 1..Len(subs) :
           k <= Len(queue) => match_stats_map[subs[k]].subbed_for_id = queue[k]

\* the players that are substitutes on a side: resolved, and not on the roster
SubstitutesOf(num) ==
  {q \in players :
     /\ q.default_team_id # MatchTeam(m_info, num)
     /\ \E k \in 1..Len(Entries) :
          Entries[k].team_num = num /\ Entries[k].name = q.name}

\* C8: every substitute of a side has a substitution row; the substitutes
\* beyond the missing roster members carry no subbed_for_id, and no
\* substitution row names a roster member who is not missing
C8_SurplusSubstitutesKeptUnpaired ==
  (AdminSaved \/ DashSaved) =>
    \A num \in {1, 2} :
      LET team_id == MatchTeam(m_info, num)
          subs == SubRowIdx(team_id)
      IN /\ \A q \in SubstitutesOf(num) :
              \E k \in 1..Len(subs) : match_stats_map[subs[k]].player_id = q.id
         /\ \A k \in 1..Len(subs) :
              /\ k > Cardinality(MissingOf(num))
                   => match_stats_map[subs[k]].subbed_for_id = NoId
              /\ match_stats_map[subs[k]].subbed_for_id # NoId
                   => match_stats_map[subs[k]].subbed_for_id \in MissingOf(num)

\* the missing roster members of a side in the order the pipeline queues them:
\* as listed by save_match_result, by name in the dashboard editor
QueueOf(num) ==
  IF AdminSaved THEN missing[num]
  ELSE LET df == roster_df(get_all_players(players), MatchTeam(m_info, num))
           miss == SelectSeq(df, LAMBDA r : r.id \in MissingOf(num))
       IN [i \in 1..Len(miss) |-> miss[i].id]

\* C9: a row without a player is no substitution and names nobody, and an
\* entry without a player takes nothing from the missing queue: the k-th
\* substitute with a player still gets the k-th queued roster member
C9_UnmatchedNeverSubstitution ==
  /\ (AdminSaved \/ DashSaved) =>
       \A i \in 1..Len(match_stats_map) :
         match_stats_map[i].player_id = NoId
         => match_stats_map[i].is_sub = 0 /\ match_stats_map[i].subbed_for_id = NoId
  /\ (AdminSaved \/ DashSaved) =>
       \A num \in {1, 2} :
         LET subs == PlayerSubRowIdx(MatchTeam(m_info, num))
         IN \A k \in 1..Len(subs) :
              k <= Len(QueueOf(num))
              => match_stats_map[subs[k]].subbed_for_id = QueueOf(num)[k]

\* the rows of the players table whose riot id is the identifier, ignoring case
RiotIdHolders(rid) ==
  {r \in players : r.riot_id # None /\ Lower(r.riot_id) = Lower(rid)}

\* C10: when a player's riot id equals the identifier case-insensitively the
\* entry names that player with the top confidence, also when another
\* player's name equals the identifier or its name part
C10_RiotIdRuleFirst ==
  HasParse =>
    \A i \in 1..Len(playerSegs) :
      LET rid == SegRid(playerSegs[i])
      IN (Truthy(rid) /\ RiotIdHolders(rid) # {})
         => \E k \in 1..Len(suggestions) :
              /\ suggestions[k].key = Lower(Strip(rid))
              /\ suggestions[k].name \in {r.name : r \in RiotIdHolders(rid)}
              /\ suggestions[k].conf = 100

\* C10 witness: the identifier is one player's riot id while its name part is
\* another player's name, and the entry names the holder of the riot id
C10_Witness ==
  /\ pc = "parsed"
  /\ \E i \in 1..Len(playerSegs), k \in 1..Len(suggestions) :
       LET rid == SegRid(playerSegs[i])
       IN /\ Truthy(rid)
          /\ suggestions[k].key = Lower(Strip(rid))
          /\ \E p \in RiotIdHolders(rid), q \in players :
               /\ q # p
               /\ Lower(q.name) = Lower(SplitHash(rid))
               /\ suggestions[k].name = p.name
               /\ suggestions[k].conf = 100

\* the identifier of a player-summary segment as the entry keeps it
RawId(i) == Strip(SegRid(playerSegs[i]))

\* the player-summary segments that carry an identifier
IdSegs == {i \in 1..Len(playerSegs) : Truthy(SegRid(playerSegs[i]))}

\* the identifier has a '#'
HasHash(rid) == \E j \in 1..Len(rid) : rid[j] = "#"

\* the players whose name, or the name part of whose riot id, is the name
\* part of the identifier, ignoring case
NamePartCandidates(rid) ==
  {r \in players :
     \/ Lower(r.name) = Lower(SplitHash(rid))
     \/ r.riot_id # None /\ Lower(SplitHash(r.riot_id)) = Lower(SplitHash(rid))}

\* C11: an entry carries the top confidence (100) only when the riot id of the
\* player it names equals the identifier ignoring case; an entry matched by a
\* name rule carries another value
C11_ExactOnlyViaRiotId ==
  HasParse =>
    \A k \in 1..Len(suggestions) :
      suggestions[k].conf = 100
      => suggestions[k].name
           \in {r.name : r \in RiotIdHolders(suggestions[k].tracker_name)}

\* C12: when no riot id equals the identifier and the identifier has a '#',
\* a player whose name or whose riot id's name part equals the identifier's
\* name part is the player the entry names
C12_NameFallbackRule ==
  HasParse =>
    \A i \in IdSegs :
      (/\ HasHash(RawId(i))
       /\ RiotIdHolders(RawId(i)) = {}
       /\ NamePartCandidates(RawId(i)) # {})
      => \E k \in 1..Len(suggestions) :
           /\ suggestions[k].key = Lower(RawId(i))
           /\ suggestions[k].name \in {r.name : r \in NamePartCandidates(RawId(i))}

\* the players of a side that the matcher resolves against a team's roster
MatcherHits(side, team_id) ==
  Cardinality({i \in IdSegs :
     /\ playerSegs[i].teamId = side
     /\ Truthy(matched_name(get_all_players(RosterRows(players, team_id)),
                            RawId(i)))})

\* C13: for every side and team the overlap counted by the side resolution is
\* the number of the side's players the matcher resolves against the team's
\* roster, and a player counted toward an overlap is resolved in the report
C13_OverlapEqualsMatcherCount ==
  (HasParse /\ Len(teamSegs) >= 2) =>
    \A t \in 1..Len(teamSegs) : \A num \in {1, 2} :
      /\ Overlap(teamSegs[t].teamId, MatchTeam(m_info, num))
           = MatcherHits(teamSegs[t].teamId, MatchTeam(m_info, num))
      /\ \A i \in IdSegs :
           (/\ playerSegs[i].teamId = teamSegs[t].teamId
            /\ is_roster_match(SegRid(playerSegs[i]),
                               RosterRows(players, MatchTeam(m_info, num))))
           => \E k \in 1..Len(suggestions) :
                /\ suggestions[k].key = Lower(RawId(i))
                /\ Truthy(suggestions[k].name)

\* no player matches the identifier by riot id, by name, by name part or by
\* containment of the name part
NoPlayerMatches(rid) ==
  /\ RiotIdHolders(rid) = {}
  /\ NamePartCandidates(rid) = {}
  /\ \A r \in players :
       /\ Lower(r.name) # Lower(rid)
       /\ ~Contains(Lower(r.name), Lower(SplitHash(rid)))
       /\ ~Contains(Lower(SplitHash(rid)), Lower(r.name))

\* C14: an identifier that matches no player keeps an entry without a player
\* and with the unmatched confidence (80), and the row handed to the database
\* for it still carries the raw identifier
C14_UnmatchedIdentifierRetained ==
  /\ HasParse =>
       \A i \in IdSegs :
         NoPlayerMatches(RawId(i))
         => \E k \in 1..Len(suggestions) :
              /\ suggestions[k].key = Lower(RawId(i))
              /\ suggestions[k].name = None
              /\ suggestions[k].conf = 80
              /\ suggestions[k].tracker_name = RawId(i)
  /\ (AdminSaved \/ DashSaved) =>
       \A i \in IdSegs :
         NoPlayerMatches(RawId(i))
         => \E j \in 1..Len(match_stats_map) :
              /\ match_stats_map[j].player_id = NoId
              /\ "tracker_name" \in DOMAIN match_stats_map[j]
              /\ match_stats_map[j]["tracker_name"] = RawId(i)

\* C15: the saved winner is team 1 when team 1 has more rounds, team 2 when
\* team 2 has more, and none on equal rounds; on equal rounds the match and
\* the map are still saved as played, with a row for every entry
C15_WinnerAndDraw ==
  AdminSaved =>
    /\ t1_r > t2_r => matches.winner_id = m_info.team1_id
    /\ t2_r > t1_r => matches.winner_id = m_info.team2_id
    /\ t1_r = t2_r => matches.winner_id = NoId
    /\ matches.status = "completed"
    /\ matches.score_t1 = t1_r /\ matches.score_t2 = t2_r
    /\ match_maps = <<[team1_rounds |-> t1_r, team2_rounds |-> t2_r,
                       winner_id |-> matches.winner_id]>>
    /\ Len(match_stats_map) = Len(resolved_players)

\* C15 witness: a telemetry with 12 rounds each is saved without a winner
C15_Witness ==
  /\ AdminSaved
  /\ Len(teamSegs) >= 2
  /\ t1_r = 12 /\ t2_r = 12
  /\ matches.status = "completed"
  /\ matches.winner_id = NoId
  /\ match_stats_map # <<>>

\* the side of the player-summary segment an entry was built from
SideOfEntry(e) ==
  playerSegs[CHOOSE i \in IdSegs : Lower(RawId(i)) = e.key].teamId

\* C16: with two team-summary segments the rounds of team 1 are the roundsWon
\* of the side mapped to team 1 and the rounds of team 2 those of the other
\* side, and the rounds of an entry's team come from the entry's own side
C16_RoundsFollowSideMapping ==
  (HasParse /\ Len(teamSegs) = 2) =>
    /\ \A t \in 1..2 :
         /\ teamSegs[t].teamId = tracker_team_1_id => t1_r = teamSegs[t].roundsWon
         /\ teamSegs[t].teamId # tracker_team_1_id => t2_r = teamSegs[t].roundsWon
    /\ \A k \in 1..Len(suggestions) :
         \E t \in 1..2 :
           /\ teamSegs[t].teamId = SideOfEntry(suggestions[k])
           /\ teamSegs[t].roundsWon
                = (IF suggestions[k].team_num = 1 THEN t1_r ELSE t2_r)

\* C17: every saved row is stored under team 1 or team 2 of the match, under
\* team 1 exactly when the side of its entry is the side resolved to team 1,
\* so two entries of one side never differ in their team
C17_TeamFollowsSideMapping ==
  AdminSaved =>
    /\ Len(match_stats_map) = Len(resolved_players)
    /\ \A i \in 1..Len(match_stats_map) :
         LET side == SideOfEntry(resolved_players[i].stats)
         IN /\ match_stats_map[i].team_id \in {m_info.team1_id, m_info.team2_id}
            /\ side = tracker_team_1_id
                 => match_stats_map[i].team_id = m_info.team1_id
            /\ side # tracker_team_1_id
                 => match_stats_map[i].team_id = m_info.team2_id
            /\ \A j \in 1..Len(match_stats_map) :
                 SideOfEntry(resolved_players[j].stats) = side
                 => match_stats_map[j].team_id = match_stats_map[i].team_id

\* C17 witness: the swapped mapping was chosen and the report has a row under
\* each team
C17_Witness ==
  /\ AdminSaved
  /\ Len(teamSegs) = 2
  /\ tracker_team_1_id = teamSegs[2].teamId
  /\ teamSegs[1].teamId # teamSegs[2].teamId
  /\ \E i, j \in 1..Len(match_stats_map) :
       /\ match_stats_map[i].team_id = m_info.team1_id
       /\ match_stats_map[j].team_id = m_info.team2_id

\* the distinct side ids of the team-summary segments
DistinctSideIds == {teamSegs[t].teamId : t \in 1..Len(teamSegs)}

\* C18: with fewer than two distinct side ids in the team-summary segments
\* the parse still returns, and its result is flagged ambiguous
C18_SingleSideIsFlaggedAmbiguous ==
  (HasParse /\ Cardinality(DistinctSideIds) < 2) => AmbiguousReported

\* C19: the substitution assignment gives the same result each time it is
\* computed from the same telemetry and players table: the roster member the
\* preview pairs with an entry is the one the save stores for that entry, so
\* the order of the missing queue does not depend on the order in which the
\* roster ids were put into the set
C19_PreviewAndSaveAgree ==
  [][(pc = "preview" /\ pc' = "saved")
       => \A i \in 1..Len(preview_list) :
            preview_list[i].subbed_for = match_stats_map'[i].subbed_for_id]_vars

\* the rows save_match_result writes when every read sees the table T
RowsOn(T, sug) ==
  LET res == ResolvePlayers(T, sug)
  IN StatRows(res, 1,
              PySetList(roster_id_list(T, m_info.team1_id), PresentIds(res, 1)),
              PySetList(roster_id_list(T, m_info.team2_id), PresentIds(res, 2)),
              m_info)

\* C20: whatever roster edit falls between the parse and the save, the saved
\* rows are those of the players table as the parse has read it: identities,
\* substitution flags and subbed_for_id all stem from that one state
C20_SavedOnParseSnapshot ==
  AdminSaved => match_stats_map = RowsOn(Range(snapshot), Entries)

(* ====================== concurrent saves of one match =================== *)
\* highest map index the dashboard editor's map selector offers
MaxMapIdx == 1

\* the two admins saving at the same time
Actors == {"a1", "a2"}

\* id of the match both save and of another, completed match
SavedMatch == 1
OtherMatch == 2

\* the players table while the saves run
SavePlayers == PlayerPool

\* WHERE clauses without a map_index / team_id condition
AnyMap == 0 - 1
AnyTeam == NoId

\* a statement that carries no row
NoRow == [none |-> TRUE]

\* json_suggestions of two telemetry documents of the match
SaveSuggestionLists ==
  { BuildSuggestions(psegs, Len(psegs), get_all_players(SavePlayers), "Red") :
      psegs \in { << PlayerSeg(1, "Red"), PlayerSeg(4, "Blue") >>,
                  << PlayerSeg(2, "Red"), PlayerSeg(5, "Blue"),
                     PlayerSeg(6, "Blue") >> } }

\* what one actor submits: the admin's confirmed preview (always map 0) or
\* the dashboard editor's form for the selected map
SaveInputs ==
  { inp \in { [kind |-> k, map_idx |-> i, t1_rounds |-> r[1],
               t2_rounds |-> r[2], player_stats |-> sug] :
                 k \in {"admin", "dash"}, i \in 0..MaxMapIdx,
                 r \in {<<13, 7>>, <<7, 13>>}, sug \in SaveSuggestionLists } :
      inp.kind = "admin" => inp.map_idx = 0 }

\* one SQL statement of a save
Stmt(op, mid, idx, tid, row) ==
  [op |-> op, match_id |-> mid, map_index |-> idx, team_id |-> tid, row |-> row]

\* a match_stats_map row of the match and map
StatRow(mid, idx, r) ==
  [match_id |-> mid, map_index |-> idx, team_id |-> r.team_id,
   player_id |-> r.player_id, acs |-> r.acs, is_sub |-> r.is_sub,
   subbed_for_id |-> r.subbed_for_id]

\* the statements of save_match_result, in program order
save_match_result_stmts(mid, inp, T, info) ==
  LET winner == Winner(info, inp.t1_rounds, inp.t2_rounds)
      res == ResolvePlayers(T, inp.player_stats)
      m1 == PySetList(roster_id_list(T, info.team1_id), PresentIds(res, 1))
      m2 == PySetList(roster_id_list(T, info.team2_id), PresentIds(res, 2))
      rows == StatRows(res, 1, m1, m2, info)
  IN << Stmt("update_match", mid, AnyMap, AnyTeam,
             [status |-> "completed", score_t1 |-> inp.t1_rounds,
              score_t2 |-> inp.t2_rounds, winner_id |-> winner,
              maps_played |-> 1]),
        Stmt("delete_maps", mid, AnyMap, AnyTeam, NoRow),
        Stmt("insert_map", mid, 0, AnyTeam,
             [match_id |-> mid, map_index |-> 0,
              team1_rounds |-> inp.t1_rounds, team2_rounds |-> inp.t2_rounds,
              winner_id |-> winner]),
        Stmt("delete_stats", mid, AnyMap, AnyTeam, NoRow) >>
     \o [i \in 1..Len(rows) |->
           Stmt("insert_stat", mid, 0, rows[i].team_id, StatRow(mid, 0, rows[i]))]

\* DELETE and INSERTs of one team of the dashboard form
team_stmts(mid, idx, team_id, entries) ==
  LET rows == InsertedRows(team_id, entries)
  IN << Stmt("delete_stats", mid, idx, team_id, NoRow) >>
     \o [i \in 1..Len(rows) |->
           Stmt("insert_stat", mid, idx, team_id, StatRow(mid, idx, rows[i]))]

\* the statements of "Save Map Details & Scoreboard", in program order
dash_save_stmts(mid, inp, T, info) ==
  LET df == get_all_players(T)
      wid == PreMapWin(info, inp.t1_rounds, inp.t2_rounds)
  IN << Stmt("delete_maps", mid, inp.map_idx, AnyTeam, NoRow),
        Stmt("insert_map", mid, inp.map_idx, AnyTeam,
             [match_id |-> mid, map_index |-> inp.map_idx,
              team1_rounds |-> inp.t1_rounds, team2_rounds |-> inp.t2_rounds,
              winner_id |-> wid]) >>
     \o team_stmts(mid, inp.map_idx, info.team1_id,
                   TeamEntries(df, inp.player_stats, 1, info.team1_id))
     \o team_stmts(mid, inp.map_idx, info.team2_id,
                   TeamEntries(df, inp.player_stats, 2, info.team2_id))
     \o << Stmt("recalc", mid, AnyMap, AnyTeam, NoRow) >>

\* the statements of the save an actor submits
SaveStmts(inp, T, info) ==
  IF inp.kind = "admin" THEN save_match_result_stmts(SavedMatch, inp, T, info)
  ELSE dash_save_stmts(SavedMatch, inp, T, info)

\* rows of a table that a WHERE clause on match, map and team selects
Selected(r, mid, idx, tid) ==
  /\ r.match_id = mid
  /\ idx = AnyMap \/ r.map_index = idx
  /\ tid = AnyTeam \/ r.team_id = tid

\* "C. Recalculate Match Totals": the matches row from the maps of the match
RecalcTotals(maps, mid, info) ==
  LET mine == SelectSeq(maps, LAMBDA r : r.match_id = mid)
      final_s1 == Len(SelectSeq(mine, LAMBDA r : r.winner_id = info.team1_id))
      final_s2 == Len(SelectSeq(mine, LAMBDA r : r.winner_id = info.team2_id))
  IN [status |-> "completed", score_t1 |-> final_s1, score_t2 |-> final_s2,
      winner_id |-> IF final_s1 > final_s2 THEN info.team1_id
                    ELSE IF final_s2 > final_s1 THEN info.team2_id ELSE NoId,
      maps_played |->
        Len(SelectSeq(mine, LAMBDA r : r.team1_rounds + r.team2_rounds > 0))]

\* the effect of one statement on the tables
Exec(s, st, info) ==
  CASE st.op = "update_match" ->
         [s EXCEPT !.matches[st.match_id] = st.row]
    [] st.op = "delete_maps" ->
         [s EXCEPT !.match_maps =
            SelectSeq(@, LAMBDA r : ~Selected(r, st.match_id, st.map_index,
                                              AnyTeam))]
    [] st.op = "insert_map" ->
         [s EXCEPT !.match_maps = Append(@, st.row)]
    [] st.op = "delete_stats" ->
         [s EXCEPT !.match_stats_map =
            SelectSeq(@, LAMBDA r : ~Selected(r, st.match_id, st.map_index,
                                              st.team_id))]
    [] st.op = "insert_stat" ->
         [s EXCEPT !.match_stats_map = Append(@, st.row)]
    [] st.op = "recalc" ->
         [s EXCEPT !.matches[st.match_id] =
            RecalcTotals(s.match_maps, st.match_id, info)]

\* CanWrite without SQLite's write lock
CanWrite_no_lock(a) == a \in Actors

\* SQLite's write lock: a connection writes when no other connection holds it
CanWrite(a) == db_lock \in {NoActor, a}

\* the store before the two saves: the match is scheduled, another match is
\* completed and has its rows
InitialStore ==
  [matches |->
     (SavedMatch :> [status |-> "scheduled", score_t1 |-> 0, score_t2 |-> 0,
                     winner_id |-> NoId, maps_played |-> 0])
     @@ (OtherMatch :> [status |-> "completed", score_t1 |-> 13, score_t2 |-> 5,
                        winner_id |-> 1, maps_played |-> 1]),
   match_maps |->
     << [match_id |-> OtherMatch, map_index |-> 0, team1_rounds |-> 13,
         team2_rounds |-> 5, winner_id |-> 1] >>,
   match_stats_map |->
     << [match_id |-> OtherMatch, map_index |-> 0, team_id |-> 1,
         player_id |-> 9, acs |-> 250, is_sub |-> 0, subbed_for_id |-> NoId],
        [match_id |-> OtherMatch, map_index |-> 0, team_id |-> 2,
         player_id |-> 3, acs |-> 180, is_sub |-> 0, subbed_for_id |-> NoId] >>]

\* the match editor at rest while other parts of the program run
EditorIdle ==
  /\ all_players_cache = NoCache
  /\ snapshot = <<>>
  /\ teamSegs = <<>>
  /\ playerSegs = <<>>
  /\ m_info = [team1_id |-> 1, team2_id |-> 2]
  /\ pc = "editor"
  /\ tracker_team_1_id = NoSide
  /\ suggestions = <<>>
  /\ t1_r = 0
  /\ t2_r = 0
  /\ preview_list = <<>>
  /\ resolved_players = <<>>
  /\ missing = <<>>
  /\ matches = [status |-> "scheduled", score_t1 |-> 0, score_t2 |-> 0,
                winner_id |-> NoId]
  /\ match_maps = <<>>
  /\ match_stats_map = <<>>
  /\ all_teams_entries = <<>>

\* two actors have each pressed their save button for the same match
InitSave ==
  /\ players = SavePlayers
  /\ EditorIdle
  /\ store = InitialStore
  /\ conn \in [Actors -> { [input |-> inp,
                            stmts |-> SaveStmts(inp, SavePlayers, m_info),
                            phase |-> "ready",
                            journal |-> InitialStore] : inp \in SaveInputs }]
  /\ db_lock = NoActor
  /\ last_commit = NoActor
  /\ js_data = <<>>
  /\ outcome = <<>>
  /\ AuthIdle
  /\ MaintIdle

\* the next statement of a's save runs; the first one begins the transaction
Execute(a) ==
  /\ conn[a].phase \in {"ready", "open"}
  /\ conn[a].stmts # <<>>
  /\ CanWrite(a)
  /\ store' = Exec(store, Head(conn[a].stmts), m_info)
  /\ conn' = [conn EXCEPT ![a].stmts = Tail(@),
                          ![a].phase = "open",
                          ![a].journal = IF conn[a].phase = "ready"
                                         THEN store ELSE @]
  /\ db_lock' = a
  /\ UNCHANGED <<last_commit, saveRest>>

\* the first statement of a's save finds the database locked until the busy
\* timeout: the exception is reported and nothing is written
Locked(a) ==
  /\ conn[a].phase = "ready"
  /\ ~CanWrite(a)
  /\ conn' = [conn EXCEPT ![a].phase = "error"]
  /\ UNCHANGED <<store, db_lock, last_commit, saveRest>>

\* conn.commit()
Commit(a) ==
  /\ conn[a].phase = "open"
  /\ conn[a].stmts = <<>>
  /\ conn' = [conn EXCEPT ![a].phase = "done"]
  /\ db_lock' = IF db_lock = a THEN NoActor ELSE db_lock
  /\ last_commit' = a
  /\ UNCHANGED <<store, saveRest>>

\* conn.commit() raises (a reader holds the file): the connection is closed
\* without a commit and the transaction is rolled back
CommitFails(a) ==
  /\ conn[a].phase = "open"
  /\ conn[a].stmts = <<>>
  /\ store' = conn[a].journal
  /\ conn' = [conn EXCEPT ![a].phase = "error"]
  /\ db_lock' = IF db_lock = a THEN NoActor ELSE db_lock
  /\ UNCHANGED <<last_commit, saveRest>>

NextSave ==
  \E a \in Actors : Execute(a) \/ Locked(a) \/ Commit(a) \/ CommitFails(a)

SpecSave == InitSave /\ [][NextSave]_vars

(* ---------------------------- C21 --------------------------------------- *)
\* the statements of one save run on their own, one after the other
RECURSIVE RunAll(_, _, _)
RunAll(s, stmts, info) ==
  IF stmts = <<>> THEN s
  ELSE RunAll(Exec(s, Head(stmts), info), Tail(stmts), info)

\* the matches row, map rows and stat rows of one match
MatchPart(s, mid) ==
  [row |-> s.matches[mid],
   maps |-> SelectSeq(s.match_maps, LAMBDA r : r.match_id = mid),
   stats |-> SelectSeq(s.match_stats_map, LAMBDA r : r.match_id = mid)]

\* the map row and stat rows of one map of a match
MapPart(s, mid, idx) ==
  [maps |-> SelectSeq(s.match_maps,
                      LAMBDA r : r.match_id = mid /\ r.map_index = idx),
   stats |-> SelectSeq(s.match_stats_map,
                       LAMBDA r : r.match_id = mid /\ r.map_index = idx)]

\* the store one save writes when it is the only one
Alone(inp) == RunAll(InitialStore, SaveStmts(inp, SavePlayers, m_info), m_info)

Committed == {a \in Actors : conn[a].phase = "done"}
NoOpenSave == \A a \in Actors : conn[a].phase # "open"

\* C21 as stated: after any interleaving of two saves of the same match the
\* score, map rows and stat rows of the match are exactly those one of the
\* two saves writes, and the rows of the other match are unchanged. Violated
\* when the dashboard editor saves another map of the match after a save of
\* map 0: the rows of both maps are stored.
C21_StoredRowsAreOneSavesRows ==
  (NoOpenSave /\ Committed # {}) =>
    /\ \E a \in Committed :
         MatchPart(store, SavedMatch) = MatchPart(Alone(conn[a].input), SavedMatch)
    /\ MatchPart(store, OtherMatch) = MatchPart(InitialStore, OtherMatch)

\* C21 (amended): after any interleaving of two saves of the same match, the
\* map row and stat rows of the map the last committed save addresses are
\* exactly the rows that save writes (each once, also when the same input is
\* saved twice), the matches row is the one it wrote, the rows of the other
\* match are unchanged, and when both saves address the same map or the last
\* one is save_match_result all rows of the match are the last save's.
C21_LastSaveOfTheMapWins ==
  (NoOpenSave /\ last_commit \in Actors) =>
    LET inp == conn[last_commit].input
        others == {conn[a].input : a \in Committed \ {last_commit}}
    IN /\ MapPart(store, SavedMatch, inp.map_idx)
            = MapPart(Alone(inp), SavedMatch, inp.map_idx)
       /\ store.matches[SavedMatch] =
            IF inp.kind = "admin" THEN Alone(inp).matches[SavedMatch]
            ELSE RecalcTotals(store.match_maps, SavedMatch, m_info)
       /\ MatchPart(store, OtherMatch) = MatchPart(InitialStore, OtherMatch)
       /\ (inp.kind = "admin" \/ \A o \in others : o.map_idx = inp.map_idx)
            => MatchPart(store, SavedMatch) = MatchPart(Alone(inp), SavedMatch)

\* both saves of the same map have committed, with different rows
C21_Witness ==
  /\ Committed = Actors
  /\ conn["a1"].input.map_idx = conn["a2"].input.map_idx
  /\ conn["a1"].input.kind # conn["a2"].input.kind
  /\ conn["a1"].input.player_stats # conn["a2"].input.player_stats
  /\ conn["a1"].input.t1_rounds # conn["a2"].input.t1_rounds

(* ====================== the telemetry document ========================== *)
\* highest number of player-summary segments of a document
MaxDocSegs == 2

\* JSON values as json.load returns them
JNull == [t |-> "null"]
JNum(n) == [t |-> "num", v |-> n]
JStr(s) == [t |-> "str", v |-> s]
JList(l) == [t |-> "list", v |-> l]
JObj(f) == [t |-> "obj", f |-> f]
EmptyObj == JObj(<<>>)

\* an upload that json.load cannot parse
NotJson == [t |-> "garbage"]

\* the value of an expression whose evaluation raises
Raised == [t |-> "raise"]

\* x.get(k, d): AttributeError unless x is a dict
Get(x, k, d) ==
  IF x.t # "obj" THEN Raised
  ELSE IF k \in DOMAIN x.f THEN x.f[k] ELSE d

\* x.get(k): None when the key is absent
GetOrNone(x, k) == Get(x, k, JNull)

\* bool(x)
Falsy(x) ==
  \/ x.t = "null"
  \/ x.t = "obj" /\ DOMAIN x.f = {}
  \/ x.t \in {"list", "str"} /\ x.v = <<>>
  \/ x.t = "num" /\ x.v = 0

\* "for s in x" raises on None and on a number
IterRaises(x) == x.t \in {"null", "num", "raise"}

\* the items "for s in x" visits: the elements of a list, the keys of a dict
Items(x) ==
  IF x.t = "list" THEN x.v
  ELSE IF x.t = "obj" /\ DOMAIN x.f # {} THEN <<JStr("key")>>
  ELSE <<>>

\* segments = jsdata.get("data", {}).get("segments", [])
Segments(jsdata) == Get(Get(jsdata, "data", EmptyObj), "segments", JList(<<>>))

\* [s for s in segments if s.get("type") == ty]
OfType(segs, ty) ==
  SelectSeq(segs, LAMBDA s : s.t = "obj" /\ GetOrNone(s, "type").t = "str"
                             /\ GetOrNone(s, "type").v = ty)

\* seg.get("metadata", {}), its platformInfo and seg.get("stats", {})
Metadata(seg) == Get(seg, "metadata", EmptyObj)
PlatformInfo(seg) == Get(Metadata(seg), "platformInfo", EmptyObj)
StatOf(seg, name) == Get(Get(seg, "stats", EmptyObj), name, EmptyObj)
Attributes(seg) == Get(seg, "attributes", EmptyObj)

\* a teamId, an identifier and a number as the parse uses them
SideVal(x) == IF x.t = "str" THEN x.v ELSE NoSide
IdVal(x) == IF x.t = "str" THEN x.v ELSE None
\* int(v) if v is not None else 0
NumVal(x) == IF x.t = "num" THEN x.v ELSE 0

\* the fields of a player-summary segment the parse reads
PlayerFields(seg) ==
  [teamId |-> SideVal(GetOrNone(Metadata(seg), "teamId")),
   platformUserIdentifier |->
     IdVal(GetOrNone(PlatformInfo(seg), "platformUserIdentifier")),
   platformUserHandle |->
     IdVal(GetOrNone(PlatformInfo(seg), "platformUserHandle")),
   agentName |-> IdVal(GetOrNone(Metadata(seg), "agentName")),
   scorePerRound |-> NumVal(Get(StatOf(seg, "scorePerRound"), "value", JNum(0)))]

\* the fields of a team-summary segment the parse reads
TeamFields(seg) ==
  [teamId |-> SideVal(GetOrNone(Attributes(seg), "teamId")),
   roundsWon |-> NumVal(Get(StatOf(seg, "roundsWon"), "value", JNum(0)))]

\* the scoring loop of lines 168-172 raises on a player-summary segment
ScoringRaises(p, team_ids) ==
  \/ Metadata(p).t # "obj"
  \/ /\ SideVal(GetOrNone(Metadata(p), "teamId")) \in team_ids
     /\ PlatformInfo(p).t # "obj"

\* the entry loop of lines 217-236 raises on a player-summary segment
EntryRaises(p) ==
  \/ Metadata(p).t # "obj"
  \/ PlatformInfo(p).t # "obj"
  \/ Get(p, "stats", EmptyObj).t # "obj"
  \/ StatOf(p, "scorePerRound").t # "obj"

\* lines 269-274 raise on a team-summary segment: a .get on None, or
\* int(None) at line 276
RoundsRaise(ts) ==
  \/ Attributes(ts).t # "obj"
  \/ Get(ts, "stats", EmptyObj).t # "obj"
  \/ StatOf(ts, "roundsWon").t # "obj"
  \/ Get(StatOf(ts, "roundsWon"), "value", JNum(0)).t # "num"

\* parse_tracker_json raises on the document
ParseRaises(jsdata) ==
  LET segments == Segments(jsdata)
      segs == Items(segments)
      tsegs == OfType(segs, "team-summary")
      psegs == OfType(segs, "player-summary")
      team_ids == {SideVal(GetOrNone(Attributes(tsegs[i]), "teamId")) :
                     i \in 1..Len(tsegs)}
  IN \/ segments.t = "raise"
     \/ IterRaises(segments)
     \/ \E i \in 1..Len(segs) : segs[i].t # "obj"
     \/ /\ Len(tsegs) >= 2
        /\ \/ \E i \in 1..Len(tsegs) : Attributes(tsegs[i]).t # "obj"
           \/ \E i \in 1..Len(psegs) : ScoringRaises(psegs[i], team_ids)
     \/ Len(tsegs) = 1 /\ Attributes(tsegs[1]).t # "obj"
     \/ \E i \in 1..Len(psegs) : EntryRaises(psegs[i])
     \/ Get(Get(jsdata, "data", EmptyObj), "metadata", EmptyObj).t # "obj"
     \/ Len(tsegs) >= 2 /\ \E i \in 1..2 : RoundsRaise(tsegs[i])

\* what parse_tracker_json returns when it does not raise
ParseDocument(jsdata, T, info) ==
  LET segs == Items(Segments(jsdata))
      tsrc == OfType(segs, "team-summary")
      psrc == OfType(segs, "player-summary")
      tsegs == [i \in 1..Len(tsrc) |-> TeamFields(tsrc[i])]
      psegs == [i \in 1..Len(psrc) |-> PlayerFields(psrc[i])]
      df == get_all_players(T)
      tt1 == ResolveSide(tsegs, psegs, T, info.team1_id, info.team2_id)
      rr == Rounds(tsegs, tt1)
  IN ParseResult(BuildSuggestions(psegs, Len(psegs), df, tt1), rr[1], rr[2])

\* an optional field: present with its value, absent, or present as null
Modes == {"value", "absent", "null"}
Field(k, mode, v) ==
  IF mode = "absent" THEN <<>>
  ELSE k :> (IF mode = "null" THEN JNull ELSE v)

\* a player-summary segment with identifier id on side sd
PlayerDoc(id, sd, m) ==
  JObj(("type" :> JStr("player-summary"))
       @@ ("metadata" :>
             JObj(Field("teamId", m.teamId, JStr(sd))
                  @@ Field("agentName", m.agentName, JStr(<<"J", "e", "t", "t">>))
                  @@ Field("platformInfo", m.platformInfo,
                           JObj(Field("platformUserIdentifier", m.ident, JStr(id))))))
       @@ Field("stats", m.stats,
                JObj("scorePerRound" :>
                       JObj(Field("value", m.value, JNum(231))))))

\* a team-summary segment of side sd
TeamDoc(sd, won, m) ==
  JObj(("type" :> JStr("team-summary"))
       @@ ("attributes" :> JObj(Field("teamId", m.teamId, JStr(sd))))
       @@ Field("stats", m.stats,
                JObj(Field("roundsWon", m.roundsWon,
                           JObj(Field("value", m.value, JNum(won)))))))

PlayerModes ==
  [teamId : Modes, agentName : Modes, platformInfo : Modes, ident : {"value"},
   stats : Modes, value : Modes]
TeamModes == [teamId : Modes, stats : Modes, roundsWon : Modes, value : Modes]
AllPresent ==
  [teamId |-> "value", agentName |-> "value", platformInfo |-> "value",
   ident |-> "value", stats |-> "value", roundsWon |-> "value", value |-> "value"]

\* a document with the given segments
Document(segs) ==
  JObj("data" :> JObj(("metadata" :> JObj("mapName" :> JStr("Bind")))
                      @@ ("segments" :> JList(segs))))

\* documents with a segment list whose optional fields are absent or null
SparseDocuments ==
  { Document(ts \o << PlayerDoc(<<"b", "#", "1">>, "Red", pm) >>) :
      pm \in PlayerModes,
      ts \in {<< >>}
             \cup { << TeamDoc("Red", 13, tm), TeamDoc("Blue", 7, AllPresent) >> :
                      tm \in TeamModes } }

\* identifiers of complete segments: two that differ in case only, a handle,
\* and a segment with neither identifier nor handle
DocIdents == { [ident |-> "value", id |-> <<"b", "#", "1">>],
               [ident |-> "value", id |-> <<"B", "#", "1">>],
               [ident |-> "value", id |-> <<"z", "#", "9">>],
               [ident |-> "absent", id |-> <<>>] }

\* documents of complete segments, at most MaxDocSegs player-summary segments
CompleteDocuments ==
  { Document(<< TeamDoc("Red", 13, AllPresent), TeamDoc("Blue", 7, AllPresent) >>
             \o [i \in 1..n |->
                   PlayerDoc(f[i].id, sd[i], [AllPresent EXCEPT !.ident = f[i].ident])]) :
      <<n, f, sd>> \in
        UNION { {n1} \X [1..n1 -> DocIdents] \X [1..n1 -> Sides] : n1 \in 0..MaxDocSegs } }

\* uploads that are no document with a segment list
MalformedUploads ==
  { NotJson, JNum(5), JList(<< >>), JList(<< JNum(1) >>), EmptyObj,
    JObj("errors" :> JList(<< JStr("not found") >>)),
    JObj("data" :> JNull), JObj("data" :> JList(<< >>)),
    JObj("data" :> EmptyObj),
    JObj("data" :> JObj("metadata" :> JObj("mapName" :> JStr("Bind")))),
    JObj("data" :> JObj("segments" :> JNull)) }

Uploads == SparseDocuments \cup CompleteDocuments \cup MalformedUploads

InitDoc ==
  /\ players = SavePlayers
  /\ EditorIdle
  /\ store = <<>>
  /\ conn = <<>>
  /\ db_lock = NoActor
  /\ last_commit = NoActor
  /\ js_data \in Uploads
  /\ outcome = [kind |-> "waiting"]
  /\ AuthIdle
  /\ MaintIdle

\* "Parse & Preview" on an uploaded file: json.load, parse_tracker_json and
\* the except clauses around them
UploadTelemetry ==
  /\ outcome.kind = "waiting"
  /\ outcome' =
       IF js_data.t = "garbage" THEN [kind |-> "invalid_json"]
       ELSE IF Falsy(js_data) THEN [kind |-> "ignored"]
       ELSE IF ParseRaises(js_data) THEN [kind |-> "error"]
       ELSE [kind |-> "preview",
             report |-> ParseDocument(js_data, players, m_info)]
  /\ UNCHANGED <<js_data, docRest>>

NextDoc == UploadTelemetry

SpecDoc == InitDoc /\ [][NextDoc]_vars

(* ---------------------------- C22 --------------------------------------- *)
\* the upload is a document with a segment list
HasSegmentList(d) ==
  /\ d.t = "obj"
  /\ "data" \in DOMAIN d.f
  /\ d.f["data"].t = "obj"
  /\ "segments" \in DOMAIN d.f["data"].f
  /\ d.f["data"].f["segments"].t = "list"

Handled == outcome.kind # "waiting"

\* C22: an upload that is no document with a segment list is reported to the
\* caller as an error; it is neither ignored nor turned into a report.
C22_MalformedInputIsReported ==
  (Handled /\ ~HasSegmentList(js_data)) =>
    outcome.kind \in {"invalid_json", "error"}

(* ---------------------------- C23 --------------------------------------- *)
\* the value under a path of keys, null when a key is absent or a value on
\* the way is null
RECURSIVE Dig(_, _)
Dig(x, keys) ==
  IF keys = <<>> \/ x.t # "obj" THEN (IF x.t = "obj" /\ keys # <<>> THEN JNull ELSE x)
  ELSE IF Head(keys) \in DOMAIN x.f THEN Dig(x.f[Head(keys)], Tail(keys))
  ELSE JNull

PlayerSummaries == OfType(Items(Segments(js_data)), "player-summary")
TeamSummaries == OfType(Items(Segments(js_data)), "team-summary")

\* C23: on a document with a segment list whose segments lack any of the
\* optional fields (absent or null), parse_tracker_json does not raise, the
\* entry's stat is the value given or 0, its agent the name given or null,
\* and the rounds are the values given or 0.
C23_AbsentOrNullFieldsDefault ==
  (Handled /\ js_data \in SparseDocuments) =>
    /\ outcome.kind = "preview"
    /\ LET sug == outcome.report.json_suggestions
           p == PlayerSummaries[1]
       IN /\ Len(sug) = 1
          /\ sug[1].acs = NumVal(Dig(p, <<"stats", "scorePerRound", "value">>))
          /\ sug[1].agent = IdVal(Dig(p, <<"metadata", "agentName">>))
    /\ {outcome.report.t1_rounds, outcome.report.t2_rounds} =
         IF TeamSummaries = <<>> THEN {0}
         ELSE {NumVal(Dig(TeamSummaries[i], <<"stats", "roundsWon", "value">>)) :
                 i \in 1..2}

(* ---------------------------- C24 --------------------------------------- *)
\* C24: the report has exactly one entry per player-summary segment, also
\* when identifiers differ in letter case only or a segment has none.
C24_OneEntryPerPlayerSegment ==
  (Handled /\ outcome.kind = "preview") =>
    Len(outcome.report.json_suggestions) = Len(PlayerSummaries)

(* ====================== the portal: login and sessions ================== *)
\* number of clock steps followed
MaxTicks == 5
\* failed submissions and clock steps followed when two visitors share
\* the portal
MaxSharedFailures == 1
MaxSharedTicks == 1

\* throttle of track_user_activity, window of get_active_admin_session,
\* lockout of the login screen, age at which activity rows are deleted,
\* and the number of failed attempts that locks the screen
ActivityThrottle == 300
AdminWindow == 300
Lockout == 300
SessionMaxAge == 1800
MaxAttempts == 5

\* seconds the clock advances by in one step: half a lockout for one
\* visitor, a whole window of get_active_admin_session for two
TickLen == Lockout \div 2
SharedTickLen == AdminWindow

\* time.time() at the first script run
StartTime == 1000

NoSecret == "<unset>"
NoUser == "<none>"
NoRole == "<unset>"

\* pbkdf2_hmac of a password under a salt
hash_password(password, salt) == <<"pbkdf2", salt, password>>

\* verify_password
verify_password(password, salt, stored_hash) ==
  hash_password(password, salt) = stored_hash

\* the admins table
admins ==
  { [username |-> "root", salt |-> "s1", password_hash |-> hash_password("pw", "s1"),
     role |-> "admin", is_active |-> 1],
    [username |-> "dev1", salt |-> "s2", password_hash |-> hash_password("pw", "s2"),
     role |-> "dev", is_active |-> 1],
    [username |-> "old", salt |-> "s3", password_hash |-> hash_password("pw", "s3"),
     role |-> "admin", is_active |-> 0] }

\* authenticate returns None
NoAuth == [username |-> NoUser, role |-> NoRole]

\* authenticate: the admin record, or None
authenticate(username, password) ==
  LET rows == {r \in admins : r.username = username /\ r.is_active = 1}
  IN IF rows = {} THEN NoAuth
     ELSE LET row == CHOOSE r \in rows : TRUE
          IN IF verify_password(password, row.salt, row.password_hash)
             THEN [username |-> row.username, role |-> row.role]
             ELSE NoAuth

\* the history before the first script run and after a clock step
NoRun == [visitor |-> NoUser, offered |-> FALSE, processed |-> FALSE,
          denied |-> FALSE, auth_res |-> NoAuth, tok |-> ""]

\* what a visitor types into the login form
Submissions ==
  [u : {"root", "dev1", "old"}, p : {"pw", "bad"}, tok : {"T0K", "bad", ""}]

\* get_visitor_ip: the visitor id of a session
get_visitor_ip(v) == v

\* a fresh session after the defaults of app.py:59-68
NewSession ==
  [app_mode |-> "portal", is_admin |-> FALSE, username |-> NoUser,
   role |-> NoRole, login_attempts |-> 0, last_login_attempt |-> 0,
   last_activity_ts |-> 0, form_offered |-> FALSE, logged_out |-> FALSE,
   last_seen |-> 0]

\* history: the time of the session's last script run
Seen(ss, t) == [ss EXCEPT !.last_seen = t]

\* the role track_user_activity records
ActivityRole(ss) == IF ss.is_admin
                    THEN (IF ss.role = NoRole THEN "admin" ELSE ss.role)
                    ELSE "visitor"

\* track_user_activity writes nothing within 300 s of its last write
Throttled(ss, t) == t - ss.last_activity_ts < ActivityThrottle

\* track_user_activity: st.session_state after the call
TrackState(ss, t) ==
  IF Throttled(ss, t) THEN ss ELSE [ss EXCEPT !.last_activity_ts = t]

\* track_user_activity: the session_activity table after the call
TrackTable(tab, v, ss, t) ==
  IF Throttled(ss, t) THEN tab
  ELSE { r \in ({ r \in tab : r.session_id # v }
                \cup { [session_id |-> v, username |-> ss.username,
                        role |-> ActivityRole(ss), last_activity |-> t,
                        ip_address |-> get_visitor_ip(v)] }) :
           ~(r.last_activity < t - SessionMaxAge) }

\* get_active_admin_session: the rows of other visitors' active admin sessions
get_active_admin_session(tab, v, t) ==
  { r \in tab : /\ r.role \in {"admin", "dev"}
                /\ r.last_activity > t - AdminWindow
                /\ r.ip_address # get_visitor_ip(v) }

\* token_valid of app.py:205-217 without the check for a configured token
token_valid_unset_passes(env_tok, tok) ==
  IF env_tok # NoSecret /\ env_tok # "" THEN tok = env_tok ELSE TRUE

\* token_valid of app.py:205-217
token_valid(env_tok, tok) ==
  IF env_tok # NoSecret /\ env_tok # "" THEN tok = env_tok ELSE FALSE

\* ScreenLocked without the lockout
ScreenLocked_never(ss, t) == ss.login_attempts > MaxAttempts

\* the login screen is locked: 5 attempts and less than 300 s since the last
ScreenLocked(ss, t) ==
  /\ ss.login_attempts >= MaxAttempts
  /\ t - ss.last_login_attempt < Lockout

\* lines 173-183: the counter after the rate limit check of an unlocked screen
AfterRateLimit(ss) ==
  IF ss.login_attempts >= MaxAttempts THEN [ss EXCEPT !.login_attempts = 0]
  ELSE ss

\* privilege checks: show_admin_panel and the predictor's is_privileged
AdminPanelAccess(ss) == ss.is_admin
is_privileged(ss) == ss.is_admin \/ ss.role \in {"admin", "dev"}

\* lines 112-233 without a submission: the login screen, or the main app
\* when the session is logged in
LoginScreen(ss, t) ==
  IF ss.is_admin \/ ss.app_mode # "admin" \/ ScreenLocked(ss, t)
  THEN [ss EXCEPT !.form_offered = FALSE]
  ELSE [AfterRateLimit(ss) EXCEPT !.form_offered = TRUE]

\* the session shows the main app (navigation bar and pages)
InMainApp(ss) ==
  ss.app_mode = "visitor" \/ (ss.app_mode = "admin" /\ ss.is_admin)

Visitors == DOMAIN session_state

\* what a script run without a processed submission leaves in the history
PlainRun(v, ss) ==
  [visitor |-> v, offered |-> ss.form_offered, processed |-> FALSE,
   denied |-> FALSE, auth_res |-> NoAuth, tok |-> ""]

\* the portal's "ADMIN LOGIN" button, and the rerun it triggers
OpenLogin(v) ==
  /\ session_state[v].app_mode = "portal"
  /\ LET ss0 == TrackState(session_state[v], now)
         tab0 == TrackTable(session_activity, v, session_state[v], now)
         ss1 == [ss0 EXCEPT !.app_mode = "admin"]
         ss2 == LoginScreen(TrackState(ss1, now), now)
     IN /\ session_state' = [session_state EXCEPT ![v] = Seen(ss2, now)]
        /\ session_activity' = TrackTable(tab0, v, ss1, now)
        /\ last_run' = PlainRun(v, ss2)
  /\ UNCHANGED <<now, ADMIN_LOGIN_TOKEN, fail_budget, authRest>>

\* "ENTER PORTAL"
EnterPortal(v) ==
  /\ session_state[v].app_mode = "portal"
  /\ LET ss0 == TrackState(session_state[v], now)
         tab0 == TrackTable(session_activity, v, session_state[v], now)
         ss1 == [ss0 EXCEPT !.app_mode = "visitor", !.form_offered = FALSE]
     IN /\ session_state' = [session_state EXCEPT ![v] = Seen(TrackState(ss1, now), now)]
        /\ session_activity' = TrackTable(tab0, v, ss1, now)
        /\ last_run' = PlainRun(v, ss1)
  /\ UNCHANGED <<now, ADMIN_LOGIN_TOKEN, fail_budget, authRest>>

\* a run of the login screen without a submission
ReloadLogin(v) ==
  /\ session_state[v].app_mode = "admin"
  /\ ~session_state[v].is_admin
  /\ LET ss0 == TrackState(session_state[v], now)
         ss1 == LoginScreen(ss0, now)
     IN /\ session_state' = [session_state EXCEPT ![v] = Seen(ss1, now)]
        /\ session_activity' =
             TrackTable(session_activity, v, session_state[v], now)
        /\ last_run' = PlainRun(v, ss1)
  /\ UNCHANGED <<now, ADMIN_LOGIN_TOKEN, fail_budget, authRest>>

\* "BACK TO SELECTION" on the login screen
Back(v) ==
  /\ session_state[v].app_mode = "admin"
  /\ ~session_state[v].is_admin
  /\ LET ss0 == TrackState(session_state[v], now)
         tab0 == TrackTable(session_activity, v, session_state[v], now)
         ss1 == [LoginScreen(ss0, now) EXCEPT !.app_mode = "portal",
                                              !.form_offered = FALSE]
     IN /\ session_state' = [session_state EXCEPT ![v] = Seen(TrackState(ss1, now), now)]
        /\ session_activity' = TrackTable(tab0, v, ss1, now)
        /\ last_run' = PlainRun(v, ss1)
  /\ UNCHANGED <<now, ADMIN_LOGIN_TOKEN, fail_budget, authRest>>

\* the submission passes the credential and token checks of lines 203-220
ChecksPass(sub) ==
  /\ authenticate(sub.u, sub.p).username # NoUser
  /\ token_valid(ADMIN_LOGIN_TOKEN, sub.tok)

\* "LOGIN TO ADMIN PANEL" with the form filled in as sub
SubmitLogin(v, sub) ==
  /\ session_state[v].app_mode = "admin"
  /\ ~session_state[v].is_admin
  /\ session_state[v].form_offered
  /\ LET ss0 == TrackState(session_state[v], now)
         tab0 == TrackTable(session_activity, v, session_state[v], now)
         locked == ScreenLocked(ss0, now)
         ss1 == LoginScreen(ss0, now)
         active_admin == get_active_admin_session(tab0, v, now)
         denied == active_admin # {}
         ok == ~locked /\ ~denied /\ ChecksPass(sub)
         failed == ~locked /\ ~denied /\ ~ChecksPass(sub)
         auth_res == authenticate(sub.u, sub.p)
         granted == [ss1 EXCEPT !.is_admin = TRUE,
                                !.username = auth_res.username,
                                !.role = auth_res.role,
                                !.login_attempts = 0,
                                !.logged_out = FALSE]
     IN /\ failed => fail_budget > 0
        /\ fail_budget' = IF failed THEN fail_budget - 1 ELSE fail_budget
        /\ session_state' =
             [session_state EXCEPT ![v] =
                Seen(IF ok
                     THEN [TrackState(TrackState(granted, now), now)
                             EXCEPT !.form_offered = FALSE]
                     ELSE IF failed
                     THEN [ss1 EXCEPT !.last_login_attempt = now,
                                      !.login_attempts = @ + 1]
                     ELSE ss1, now)]
        /\ session_activity' =
             IF ok THEN TrackTable(TrackTable(tab0, v, granted, now), v,
                                   TrackState(granted, now), now)
             ELSE tab0
        /\ last_run' = [visitor |-> v, offered |-> ss1.form_offered /\ ~ok,
                        processed |-> ~locked,
                        denied |-> ~locked /\ denied,
                        auth_res |-> IF locked \/ denied THEN NoAuth ELSE auth_res,
                        tok |-> IF locked \/ denied THEN "" ELSE sub.tok]
  /\ UNCHANGED <<now, ADMIN_LOGIN_TOKEN, authRest>>

\* a page of the main app is shown (navigation, refresh)
ViewPage(v) ==
  /\ InMainApp(session_state[v])
  /\ session_state' =
       [session_state EXCEPT ![v] = Seen(TrackState(session_state[v], now), now)]
  /\ session_activity' = TrackTable(session_activity, v, session_state[v], now)
  /\ last_run' = PlainRun(v, session_state[v])
  /\ UNCHANGED <<now, ADMIN_LOGIN_TOKEN, fail_budget, authRest>>

\* "EXIT" in the navigation bar
Exit(v) ==
  /\ InMainApp(session_state[v])
  /\ LET ss0 == TrackState(session_state[v], now)
         tab0 == TrackTable(session_activity, v, session_state[v], now)
         ss1 == [ss0 EXCEPT !.app_mode = "portal"]
     IN /\ session_state' = [session_state EXCEPT ![v] = Seen(TrackState(ss1, now), now)]
        /\ session_activity' = TrackTable(tab0, v, ss1, now)
        /\ last_run' = PlainRun(v, ss1)
  /\ UNCHANGED <<now, ADMIN_LOGIN_TOKEN, fail_budget, authRest>>

\* "LOGOUT" in the navigation bar
Logout(v) ==
  /\ InMainApp(session_state[v])
  /\ session_state[v].is_admin
  /\ LET ss0 == TrackState(session_state[v], now)
         tab0 == TrackTable(session_activity, v, session_state[v], now)
         ss1 == [ss0 EXCEPT !.is_admin = FALSE, !.username = NoUser,
                            !.app_mode = "portal", !.logged_out = TRUE]
     IN /\ session_state' = [session_state EXCEPT ![v] = Seen(TrackState(ss1, now), now)]
        /\ session_activity' = TrackTable(tab0, v, ss1, now)
        /\ last_run' = PlainRun(v, ss1)
  /\ UNCHANGED <<now, ADMIN_LOGIN_TOKEN, fail_budget, authRest>>

\* lines 136-146: "UNLOCK MY ID" deletes the admin rows of the visitor's id
UnlockedRows(tab, v) ==
  { r \in tab : ~(r.ip_address = get_visitor_ip(v)
                  /\ r.role \in {"admin", "dev"}) }

\* lines 151-169: "FORCE UNLOCK EVERYTHING" deletes every admin row when
\* the token typed equals FORCE_UNLOCK_TOKEN, which falls back to
\* ADMIN_LOGIN_TOKEN
ForceUnlockedRows(tab, force_token) ==
  IF ADMIN_LOGIN_TOKEN # NoSecret /\ force_token = ADMIN_LOGIN_TOKEN
  THEN { r \in tab : r.role \notin {"admin", "dev"} }
  ELSE tab

\* a button of the "UNLOCK ACCESS" expander, which the login screen shows
\* while another visitor's admin session is reported active
Unlock(v, force, force_token) ==
  /\ session_state[v].app_mode = "admin"
  /\ ~session_state[v].is_admin
  /\ LET ss0 == TrackState(session_state[v], now)
         tab0 == TrackTable(session_activity, v, session_state[v], now)
         ss1 == LoginScreen(ss0, now)
     IN /\ get_active_admin_session(tab0, v, now) # {}
        /\ session_state' = [session_state EXCEPT ![v] = Seen(ss1, now)]
        /\ session_activity' = IF force
                               THEN ForceUnlockedRows(tab0, force_token)
                               ELSE UnlockedRows(tab0, v)
        /\ last_run' = PlainRun(v, ss1)
  /\ UNCHANGED <<now, ADMIN_LOGIN_TOKEN, fail_budget, authRest>>

\* time passes
Tick ==
  /\ now < StartTime + (IF Cardinality(Visitors) = 1
                        THEN MaxTicks * TickLen
                        ELSE MaxSharedTicks * SharedTickLen)
  /\ now' = now + (IF Cardinality(Visitors) = 1 THEN TickLen
                   ELSE SharedTickLen)
  /\ last_run' = NoRun
  /\ UNCHANGED <<session_state, session_activity, ADMIN_LOGIN_TOKEN,
                 fail_budget, authRest>>

\* the steps of one session and of the clock
NextSession ==
  \/ \E v \in Visitors : OpenLogin(v)
  \/ \E v \in Visitors : EnterPortal(v)
  \/ \E v \in Visitors : ReloadLogin(v)
  \/ \E v \in Visitors : Back(v)
  \/ \E v \in Visitors, sub \in Submissions : SubmitLogin(v, sub)
  \/ \E v \in Visitors : ViewPage(v)
  \/ \E v \in Visitors : Exit(v)
  \/ \E v \in Visitors : Logout(v)
  \/ Tick

\* with the steps that need another visitor's admin session
NextAuth ==
  \/ \E v \in Visitors : OpenLogin(v)
  \/ \E v \in Visitors : EnterPortal(v)
  \/ \E v \in Visitors : ReloadLogin(v)
  \/ \E v \in Visitors : Back(v)
  \/ \E v \in Visitors, sub \in Submissions : SubmitLogin(v, sub)
  \/ \E v \in Visitors : ViewPage(v)
  \/ \E v \in Visitors : Exit(v)
  \/ \E v \in Visitors : Logout(v)
  \/ Tick
  \/ \E v \in Visitors : Unlock(v, FALSE, "")
  \/ \E v \in Visitors, force_token \in {"T0K", "bad"} :
       Unlock(v, TRUE, force_token)

\* the rest of the program while the portal runs
AuthOnly ==
  /\ players = SavePlayers
  /\ EditorIdle
  /\ store = <<>>
  /\ conn = <<>>
  /\ db_lock = NoActor
  /\ last_commit = NoActor
  /\ js_data = <<>>
  /\ outcome = <<>>
  /\ MaintIdle

\* one visitor at the portal
InitLogin ==
  /\ AuthOnly
  /\ now = StartTime
  /\ session_state = [v \in {"x"} |-> NewSession]
  /\ session_activity = {}
  /\ ADMIN_LOGIN_TOKEN \in {NoSecret, "T0K"}
  /\ last_run = NoRun
  /\ fail_budget = MaxAttempts + 1

SpecLogin == InitLogin /\ [][NextSession]_vars

\* two visitors with different visitor ids at the portal
InitAuth ==
  /\ AuthOnly
  /\ now = StartTime
  /\ session_state = [v \in {"x", "y"} |-> NewSession]
  /\ session_activity = {}
  /\ ADMIN_LOGIN_TOKEN \in {NoSecret, "T0K"}
  /\ last_run = NoRun
  /\ fail_budget = MaxSharedFailures

SpecAuth == InitAuth /\ [][NextAuth]_vars

(* ---------------------------- C25 --------------------------------------- *)
\* visitor v logs in as admin in this step
LogsIn(v) == ~session_state[v].is_admin /\ session_state'[v].is_admin

\* C25: a visitor does not become admin while another visitor is logged in
\* as admin and was last active less than 300 s ago, and right after a
\* successful login the visitor's session_activity row has the admin role.
C25_AdminPanelExclusive ==
  [][\A v \in Visitors :
       LogsIn(v) =>
         /\ \A w \in Visitors \ {v} :
              ~(session_state[w].is_admin
                /\ now - session_state[w].last_seen < 300)
         /\ \E r \in session_activity' :
              r.session_id = v /\ r.role \in {"admin", "dev"}]_vars

(* ---------------------------- C26 --------------------------------------- *)
\* C26: is_admin turns true only in a script run that processed a login
\* submission of that visitor for which authenticate returned the record of
\* an active admin, the token typed equals the configured ADMIN_LOGIN_TOKEN
\* (so never when it is not configured), and no other visitor's admin
\* session was reported active.
C26_LoginGate ==
  [][\A v \in Visitors :
       LogsIn(v) =>
         /\ last_run'.visitor = v
         /\ last_run'.processed
         /\ ~last_run'.denied
         /\ \E r \in admins : /\ r.is_active = 1
                              /\ r.username = last_run'.auth_res.username
                              /\ r.role = last_run'.auth_res.role
                              /\ session_state'[v].username = r.username
                              /\ session_state'[v].role = r.role
         /\ ADMIN_LOGIN_TOKEN # NoSecret
         /\ last_run'.tok = ADMIN_LOGIN_TOKEN
         /\ get_active_admin_session(session_activity, v, now) = {}]_vars

\* a visitor is logged in while another visitor's admin row held a login off
C26_Witness ==
  /\ session_state["x"].is_admin
  /\ session_state["x"].role = "dev"
  /\ last_run.visitor = "y"
  /\ last_run.denied

(* ---------------------------- C27 --------------------------------------- *)
\* the checks of a processed submission passed
RunPassed(run) ==
  /\ run.auth_res # NoAuth
  /\ ADMIN_LOGIN_TOKEN # NoSecret
  /\ run.tok = ADMIN_LOGIN_TOKEN

\* the run processed a submission and its credential/token check failed
RunFailed(run) == run.processed /\ ~run.denied /\ ~RunPassed(run)

\* C27: once login_attempts has reached 5 and less than 300 s have passed
\* since the last failed attempt, a run of the session processes no
\* submission, offers no form and changes neither is_admin nor the counter;
\* after 300 s a run of the login screen resets the counter to 0 and offers
\* the form; a successful login leaves the counter at 0; a failed check
\* adds exactly 1; nothing else changes the counter.
C27_RateLimit ==
  [][\A v \in Visitors :
       LET s    == session_state[v]
           s2   == session_state'[v]
           run  == last_run'
           ran  == run.visitor = v
           full == s.login_attempts >= 5
           wait == now - s.last_login_attempt
           base == IF full THEN 0 ELSE s.login_attempts
       IN  /\ (ran /\ full /\ wait < 300) =>
                /\ ~run.processed
                /\ ~run.offered
                /\ ~s2.form_offered
                /\ s2.is_admin = s.is_admin
                /\ s2.login_attempts = s.login_attempts
           /\ (ran /\ full /\ wait >= 300
                 /\ s2.app_mode = "admin" /\ ~s2.is_admin) =>
                /\ s2.form_offered
                /\ s2.login_attempts = IF RunFailed(run) THEN 1 ELSE 0
           /\ LogsIn(v) => s2.login_attempts = 0
           /\ (ran /\ RunFailed(run)) =>
                /\ s2.login_attempts = base + 1
                /\ s2.last_login_attempt = now
           /\ s2.login_attempts # s.login_attempts =>
                /\ ran
                /\ \/ RunFailed(run)
                   \/ s2.login_attempts = 0
                        /\ (LogsIn(v) \/ (full /\ wait >= 300))]_vars

\* a locked-out session has just been refused the login form
C27_Witness ==
  /\ session_state["x"].login_attempts = 5
  /\ now - session_state["x"].last_login_attempt < 300
  /\ now > session_state["x"].last_login_attempt
  /\ last_run.visitor = "x"
  /\ ~last_run.processed
  /\ ~session_state["x"].form_offered

(* ---------------------------- C28 --------------------------------------- *)
\* C28: after LOGOUT and until the next successful login of the session,
\* show_admin_panel denies access and the predictor's is_privileged is false.
C28_LogoutRevokesPrivileges ==
  \A v \in Visitors :
    session_state[v].logged_out =>
      /\ ~AdminPanelAccess(session_state[v])
      /\ ~is_privileged(session_state[v])

(* ====================== player maintenance ============================== *)
\* number of players in the table
MaxRoster == 3

\* names and Riot IDs of the players in the table
NamePool == { <<"a">>, <<"b">>, <<"B">>, <<"B", " ">> }
RiotPool == { None, <<"a", "#", "1">>, <<"A", "#", "1">>, <<"c", "#", "2">> }

\* players['name_lower'] and players['riot_lower'] of the cleanup
name_lower(p) == Strip(Lower(p.name))
riot_lower(p) == IF p.riot_id = None THEN <<>> ELSE Strip(Lower(p.riot_id))

PlayerIds(P) == { p.id : p \in P }

\* the lowest id of a group
MinId(G) == CHOOSE i \in PlayerIds(G) : \A j \in PlayerIds(G) : i <= j

\* riot_dupes: the players with a non-empty riot_lower that another has too
riot_dupes(P) ==
  { p \in P : /\ riot_lower(p) # <<>>
              /\ \E q \in P : q.id # p.id /\ riot_lower(q) = riot_lower(p) }

\* name_dupes: the players with a name_lower that another has too
name_dupes(P) ==
  { p \in P : \E q \in P : q.id # p.id /\ name_lower(q) = name_lower(p) }

\* keep_id and the remove_ids of every riot_lower group
RiotPairs(P) ==
  { [keep |-> MinId({ q \in riot_dupes(P) : riot_lower(q) = riot_lower(p) }),
     rem |-> p.id] : p \in riot_dupes(P) } \ { [keep |-> i, rem |-> i] : i \in PlayerIds(P) }

\* keep_id and the remove_ids of every name_lower group
NamePairs(P) ==
  { [keep |-> MinId({ q \in name_dupes(P) : name_lower(q) = name_lower(p) }),
     rem |-> p.id] : p \in name_dupes(P) } \ { [keep |-> i, rem |-> i] : i \in PlayerIds(P) }

\* UPDATE ... SET player_id = keep WHERE player_id = rem, and the same for
\* subbed_for_id
Repoint(rows, keep, rem) ==
  { [r EXCEPT !.player_id = IF @ = rem THEN keep ELSE @,
              !.subbed_for_id = IF @ = rem THEN keep ELSE @] : r \in rows }

\* the five statements that merge player rem into player keep
Merge(d, keep, rem) ==
  [players |-> { p \in d.players : p.id # rem },
   match_stats_map |-> Repoint(d.match_stats_map, keep, rem),
   match_stats |-> Repoint(d.match_stats, keep, rem)]

\* the pair of the lowest remove id; a player is removed by one pair only
NextPair(pairs) == CHOOSE pr \in pairs : \A o \in pairs : pr.rem <= o.rem

\* pass 1: every remove id of every Riot ID group is merged
RECURSIVE MergeRiot(_, _)
MergeRiot(pairs, d) ==
  IF pairs = {} THEN d
  ELSE LET pr == NextPair(pairs)
       IN MergeRiot(pairs \ {pr}, Merge(d, pr.keep, pr.rem))

\* pass 2: every remove id of every name group that still exists is merged
RECURSIVE MergeName(_, _)
MergeName(pairs, d) ==
  IF pairs = {} THEN d
  ELSE LET pr == NextPair(pairs)
           exists == pr.rem \in PlayerIds(d.players)
       IN MergeName(pairs \ {pr},
                    IF exists THEN Merge(d, pr.keep, pr.rem) ELSE d)

\* "Cleanup Duplicate Players": both passes work on the players read at
\* the start
CleanupDuplicates(d) ==
  MergeName(NamePairs(d.players), MergeRiot(RiotPairs(d.players), d))

\* DELETE ... WHERE player_id = pid, then subbed_for_id = NULL where it
\* was pid
Unreference(rows, pid) ==
  { [r EXCEPT !.subbed_for_id = IF @ = pid THEN NoId ELSE @] :
      r \in { x \in rows : x.player_id # pid } }

\* "Delete Player"
DeletePlayer(d, pid) ==
  [players |-> { p \in d.players : p.id # pid },
   match_stats_map |-> Unreference(d.match_stats_map, pid),
   match_stats |-> Unreference(d.match_stats, pid)]

\* tables in which every player has a row of map stats, the last player
\* stood in for player s, and the same reference is in match_stats
MaintTables ==
  { [players |-> { [id |-> i, name |-> nm[i], riot_id |-> rid[i]] : i \in 1..n },
     match_stats_map |->
       { [id |-> i, player_id |-> i,
          subbed_for_id |-> IF i = n THEN s ELSE NoId] : i \in 1..n },
     match_stats |-> { [id |-> 1, player_id |-> n, subbed_for_id |-> s] }] :
      n \in 1..MaxRoster,
      nm \in { f \in [1..MaxRoster -> NamePool] :
                 \A i, j \in 1..MaxRoster : f[i] = f[j] => i = j },
      rid \in [1..MaxRoster -> RiotPool],
      s \in 0..MaxRoster }

InitMaint ==
  /\ players = SavePlayers
  /\ EditorIdle
  /\ store = <<>>
  /\ conn = <<>>
  /\ db_lock = NoActor
  /\ last_commit = NoActor
  /\ js_data = <<>>
  /\ outcome = <<>>
  /\ AuthIdle
  /\ db \in { d \in MaintTables :
               \A r \in d.match_stats_map :
                 r.subbed_for_id \in {NoId} \cup (PlayerIds(d.players) \ {r.player_id}) }
  /\ last_action = "none"

Cleanup ==
  /\ db' = CleanupDuplicates(db)
  /\ last_action' = "cleanup"
  /\ UNCHANGED maintRest

Delete(pid) ==
  /\ pid \in PlayerIds(db.players)
  /\ db' = DeletePlayer(db, pid)
  /\ last_action' = "delete"
  /\ UNCHANGED maintRest

NextMaint ==
  \/ Cleanup
  \/ \E pid \in 1..MaxRoster : Delete(pid)

SpecMaint == InitMaint /\ [][NextMaint]_vars

(* ---------------------------- C29 --------------------------------------- *)
\* every non-null player_id and subbed_for_id of match_stats_map is the id
\* of a player
Referenced(d) ==
  \A r \in d.match_stats_map :
    /\ r.player_id # NoId => r.player_id \in PlayerIds(d.players)
    /\ r.subbed_for_id # NoId => r.subbed_for_id \in PlayerIds(d.players)

\* two records of one player: the same non-empty Riot ID, or the same name
\* with Riot IDs that are equal or of which one is empty
Duplicates(p, q) ==
  /\ p.id # q.id
  /\ \/ riot_lower(p) # <<>> /\ riot_lower(p) = riot_lower(q)
     \/ /\ name_lower(p) = name_lower(q)
        /\ \/ riot_lower(p) = riot_lower(q)
           \/ riot_lower(p) = <<>>
           \/ riot_lower(q) = <<>>

\* p is the lowest id of its group: no player of a lower id has p's
\* non-empty Riot ID or p's name
LowestOfGroup(P, p) ==
  ~\E q \in P : /\ q.id < p.id
                /\ \/ riot_lower(q) # <<>> /\ riot_lower(q) = riot_lower(p)
                   \/ name_lower(q) = name_lower(p)

\* of the players P the cleanup left the ids in left: the duplicate of a
\* player of a lower id is gone, the lowest id of a group is left
OneSurvivor(P, left) ==
  /\ \A p, q \in P : (Duplicates(p, q) /\ p.id < q.id) => q.id \notin left
  /\ \A p \in P : LowestOfGroup(P, p) => p.id \in left

\* C29: after every 'Cleanup Duplicate Players' and 'Delete Player' every
\* non-null player_id and subbed_for_id references an existing player, and
\* of every group of duplicate players the cleanup leaves exactly the
\* record with the lowest id.
C29_ReferentialIntegrity ==
  [][/\ Referenced(db')
     /\ last_action' = "cleanup" =>
          OneSurvivor(db.players, PlayerIds(db'.players))]_vars

(* ---------------------------- C30 --------------------------------------- *)
\* the Riot ID pass removes p: a player of a lower id has p's Riot ID
RiotRemoved(P, p) ==
  /\ riot_lower(p) # <<>>
  /\ \E q \in P : q.id < p.id /\ riot_lower(q) = riot_lower(p)

\* C30: the cleanup keeps both of two players of the same name whose Riot
\* IDs are non-empty and different (unless the Riot ID of one of them is
\* that of a player of a lower id).
C30_NameMergeNeedsCompatibleRiotIds ==
  [][last_action' = "cleanup" =>
       \A p, q \in db.players :
         (/\ p.id # q.id
          /\ name_lower(p) = name_lower(q)
          /\ riot_lower(p) # <<>>
          /\ riot_lower(q) # <<>>
          /\ riot_lower(p) # riot_lower(q)
          /\ ~RiotRemoved(db.players, p)
          /\ ~RiotRemoved(db.players, q))
         => {p, q} \subseteq db'.players]_vars

====
